---- MODULE Spec2Model ----
(***************************************************************************)
(* Start Writing Now: the persistence layer (entries archive, streak       *)
(* ledger, preferences) and the save / copy / delete handlers that drive   *)
(* it, in the modular build (components/*.js) and in the compatibility     *)
(* build (app-fixed.js).  Both builds share the same localStorage keys.    *)
(*                                                                         *)
(* Representation:                                                         *)
(*  - a calendar date string "YYYY-MM-DD" is the triple <<y, m, d>>; the   *)
(*    code-unit order of the zero padded strings is the lexicographic      *)
(*    order of the triples;                                                *)
(*  - a millisecond timestamp is the pair <<day, ms>> (days since          *)
(*    1970-01-01 UTC, milliseconds into that day): the mixed radix form of *)
(*    the millisecond count, which does not fit TLC's integers;            *)
(*  - a text is a sequence of one character strings;                       *)
(*  - a localStorage item is [present, value]; value holds what JSON.parse *)
(*    gives back for the stored text.                                      *)
(***************************************************************************)
EXTENDS Integers, Sequences, FiniteSets, TLC

VARIABLES
    nowDay,        \* the clock: whole days since 1970-01-01 UTC
    nowMs,         \* the clock: milliseconds into the current UTC day
    storeFull,     \* localStorage.setItem throws (quota exceeded)
    entriesItem,   \* localStorage["writingEntries"]
    streakItem,    \* localStorage["writingStreak"]
    backupDeclinedItem,   \* localStorage["emailBackupDeclined"]
    lastBackupOfferItem,  \* localStorage["lastEmailBackupOffer"]
    streakEmailOfferedItem,  \* localStorage["streakEmailOffered"]
    offers,        \* the offer dialogs the user has been shown so far
    recentPromptsItem,    \* localStorage["recentPrompts"]
    build,         \* the script the page runs: app.js or app-fixed.js
    currentMode,   \* the prompts manager's mode
    currentPrompt, \* the text of the #currentPrompt element
    externalPrompts,  \* the prompts manager's pool, null until the fetch returns
    promptsLoaded,    \* the prompts manager's promptsLoaded flag
    lastUsedPrompts,  \* the prompts manager's copy of the recency cache
    initialized,   \* App.initialized / initApp ran to its end
    startup,       \* where startup is: the pool fetch is pending, or it returned
    shown,         \* the distinct prompts shown, latest first, the last
                   \* MAX_RECENT_PROMPTS of them (sessions before this one included)
    selections,    \* prompts selected since the page was loaded
    boot,          \* the page's DOMContentLoaded and load events and what the
                   \* initializations they started have done so far
    rawItem,       \* localStorage[key] as text, for a key the wrapper is given
    stored,        \* the value the latest successful set left under that key
    timeLeft,      \* Timer.timeLeft, seconds
    interval,      \* Timer.interval: the id setInterval gave, 0 for null
    isRunning,     \* Timer.isRunning
    onUpdate,      \* Timer.onUpdate is set
    onComplete,    \* Timer.onComplete is set
    liveIntervals, \* the browser's intervals that were set and not cleared
    issued,        \* the interval ids the browser has given out
    cancelled,     \* pause, complete or cleanup ran and start has not since
    pendingChecks, \* input events whose auto-start check has not run yet
    pendingStarts, \* auto-start checks that passed and have not started the timer yet
    timers,        \* the callbacks scheduled with setTimeout and not yet run
                   \* (callbacks that do the same are kept as one)
    last           \* the handler the latest step ran, its inputs and its results

clock == <<nowDay, nowMs>>

\* the entries archive, the streak ledger, the recency cache, the preferences
archive == entriesItem
ledger == streakItem
recency == recentPromptsItem
preferences == <<backupDeclinedItem, lastBackupOfferItem, streakEmailOfferedItem,
                 offers>>

\* the prompts engine and the startup it belongs to
engine == <<externalPrompts, promptsLoaded, lastUsedPrompts, initialized, startup,
            shown, selections, boot>>

\* the storage wrapper on a key of its own
wrapper == <<rawItem, stored>>

\* the countdown timer and the browser's intervals
countdown == <<timeLeft, interval, isRunning, onUpdate, onComplete, liveIntervals,
               issued, cancelled, pendingChecks, pendingStarts>>

\* what the save, copy, delete and clear handlers leave alone
page == <<build, currentMode, currentPrompt, engine, wrapper, countdown>>

vars == <<nowDay, nowMs, storeFull, entriesItem, streakItem,
          backupDeclinedItem, lastBackupOfferItem, streakEmailOfferedItem, offers,
          recentPromptsItem, build, currentMode, currentPrompt,
          externalPrompts, promptsLoaded, lastUsedPrompts, initialized, startup,
          shown, selections, boot, rawItem, stored, timeLeft, interval, isRunning,
          onUpdate, onComplete, liveIntervals, issued, cancelled, pendingChecks,
          pendingStarts, timers, last>>

(***************************************************************************)
(* Bounds of the model.                                                    *)
(***************************************************************************)
NumDays == 7        \* calendar days the ledger specification draws from
MaxAppDays == 2     \* calendar days the application clock runs through
MaxMsOffset == 1    \* milliseconds of each day the clock can show: 0..MaxMsOffset
MaxEntries == 2     \* archive length at which saving stops
MaxSelections == 3  \* prompts selected after which no further one is asked for
MaxNumber == 10     \* the numbers handed to the storage wrapper: 0..MaxNumber
MaxStringLen == 2   \* length of the strings and raw texts handed to the store
MaxIntervals == 3   \* intervals the timer sets before it is started no more
MaxPending == 2     \* input events whose check or start is still to come
MaxOfferDays == 7   \* days after the first the clock of the offers reaches

(***************************************************************************)
(* Program constants.                                                      *)
(***************************************************************************)
MIN_WORDS_FOR_STREAK == 25
EMAIL_OFFER_COOLDOWN_DAYS == 7
FirstDay == 20088   \* 2024-12-31, the first day the model's clock shows
STREAK_PROTECTION_MILESTONE == 7
TIMER_DURATION == 180

\* consecutive days written before the clock's first day
PriorDays == 6

(***************************************************************************)
(* Calendar: what new Date("YYYY-MM-DD") and toISOString().split('T')[0]   *)
(* compute.  A date-only ISO string parses to UTC midnight of that day.    *)
(***************************************************************************)
DaysFromCivil(date) ==
    LET y0  == date[1]
        m   == date[2]
        d   == date[3]
        y   == IF m <= 2 THEN y0 - 1 ELSE y0
        era == y \div 400
        yoe == y - era * 400
        mp  == IF m > 2 THEN m - 3 ELSE m + 9
        doy == (153 * mp + 2) \div 5 + d - 1
        doe == yoe * 365 + yoe \div 4 - yoe \div 100 + doy
    IN  era * 146097 + doe - 719468

CivilFromDays(z0) ==
    LET z   == z0 + 719468
        era == z \div 146097
        doe == z - era * 146097
        yoe == (doe - doe \div 1460 + doe \div 36524 - doe \div 146096) \div 365
        y   == yoe + era * 400
        doy == doe - (365 * yoe + yoe \div 4 - yoe \div 100)
        mp  == (5 * doy + 2) \div 153
        d   == doy - (153 * mp + 2) \div 5 + 1
        m   == IF mp < 10 THEN mp + 3 ELSE mp - 9
    IN  <<IF m <= 2 THEN y + 1 ELSE y, m, d>>

\* new Date().toISOString().split('T')[0]
getCurrentDateString(day) == CivilFromDays(day)

\* (new Date(a) - new Date(b)) / (1000 * 60 * 60 * 24)
dayDiff(a, b) == DaysFromCivil(a) - DaysFromCivil(b)

\* a < b as the strings compare
DateLess(a, b) ==
    \/ a[1] < b[1]
    \/ a[1] = b[1] /\ a[2] < b[2]
    \/ a[1] = b[1] /\ a[2] = b[2] /\ a[3] < b[3]

RECURSIVE InsertSorted(_, _)
InsertSorted(sorted, x) ==
    IF sorted = <<>> THEN <<x>>
    ELSE IF DateLess(x, Head(sorted)) THEN <<x>> \o sorted
    ELSE <<Head(sorted)>> \o InsertSorted(Tail(sorted), x)

\* Array.prototype.sort() on date strings
RECURSIVE SortDays(_)
SortDays(days) ==
    IF days = <<>> THEN <<>>
    ELSE InsertSorted(SortDays(Tail(days)), Head(days))

Includes(seq, x) == \E i \in 1..Len(seq) : seq[i] = x

(***************************************************************************)
(* localStorage and StorageManager.                                        *)
(***************************************************************************)
NoItem(default) == [present |-> FALSE, value |-> default]

\* StorageManager.get / getFromStorage
StorageGet(item, defaultValue) ==
    IF item.present THEN item.value ELSE defaultValue

\* StorageManager.set / setToStorage: whether the call raises; the catch
\* block ends every rejected write
StorageSetRaises(full) == FALSE

\* a set whose rejected write drops the key
StorageSet_DropsOnFailure(item, value, full) ==
    IF full THEN [present |-> FALSE, value |-> item.value]
    ELSE [present |-> TRUE, value |-> value]

\* StorageManager.set / setToStorage: the item afterwards
StorageSet(item, value, full) ==
    IF full THEN item ELSE [present |-> TRUE, value |-> value]

\* StorageManager.remove: the item afterwards
StorageRemove(item, default) == NoItem(default)

(***************************************************************************)
(* The serialized form.  StorageManager keeps JSON.stringify(value) as the *)
(* item's text and hands back JSON.parse(text).  A JavaScript value is a   *)
(* record tagged with its type; a text is a sequence of one character      *)
(* strings.  Numbers are the naturals, strings are made of the characters  *)
(* the model writes, the only array is the empty one.                      *)
(***************************************************************************)
JSBool(b) == [type |-> "boolean", b |-> b, n |-> 0, s |-> <<>>]
JSNum(n) == [type |-> "number", b |-> FALSE, n |-> n, s |-> <<>>]
JSStr(s) == [type |-> "string", b |-> FALSE, n |-> 0, s |-> s]
JSNull == [type |-> "null", b |-> FALSE, n |-> 0, s |-> <<>>]
JSArray == [type |-> "array", b |-> FALSE, n |-> 0, s |-> <<>>]
JSUndefined == [type |-> "undefined", b |-> FALSE, n |-> 0, s |-> <<>>]
JSNaN == [type |-> "NaN", b |-> FALSE, n |-> 0, s |-> <<>>]

Digits == <<"0", "1", "2", "3", "4", "5", "6", "7", "8", "9">>
Quote == "\""
Backslash == "\\"

RECURSIVE NumText(_)
NumText(n) ==
    IF n < 10 THEN <<Digits[n + 1]>>
    ELSE NumText(n \div 10) \o <<Digits[(n % 10) + 1]>>

RECURSIVE Escape(_)
Escape(s) ==
    IF s = <<>> THEN <<>>
    ELSE (IF Head(s) \in {Quote, Backslash} THEN <<Backslash, Head(s)>>
          ELSE <<Head(s)>>) \o Escape(Tail(s))

\* JSON.stringify(value), as localStorage.setItem turns it into a string:
\* undefined gives undefined, which setItem stores as the text "undefined";
\* NaN is written as null
JSON_stringify(value) ==
    CASE value.type = "boolean" ->
            IF value.b THEN <<"t", "r", "u", "e">> ELSE <<"f", "a", "l", "s", "e">>
      [] value.type = "number" -> NumText(value.n)
      [] value.type = "string" -> <<Quote>> \o Escape(value.s) \o <<Quote>>
      [] value.type = "null" -> <<"n", "u", "l", "l">>
      [] value.type = "NaN" -> <<"n", "u", "l", "l">>
      [] value.type = "array" -> <<"[", "]">>
      [] value.type = "undefined" ->
            <<"u", "n", "d", "e", "f", "i", "n", "e", "d">>

IsDigit(c) == \E i \in 1..10 : Digits[i] = c
DigitValue(c) == CHOOSE i \in 0..9 : Digits[i + 1] = c

RECURSIVE NumValue(_)
NumValue(text) ==
    IF text = <<>> THEN 0
    ELSE NumValue(SubSeq(text, 1, Len(text) - 1)) * 10 + DigitValue(text[Len(text)])

\* the characters between the quotes of a JSON string: [ok, s]; a quote or
\* a backslash stands only behind a backslash
RECURSIVE Unescape(_)
Unescape(body) ==
    IF body = <<>> THEN [ok |-> TRUE, s |-> <<>>]
    ELSE IF Head(body) = Quote THEN [ok |-> FALSE, s |-> <<>>]
    ELSE IF Head(body) = Backslash
         THEN IF Len(body) >= 2 /\ body[2] \in {Quote, Backslash}
              THEN LET rest == Unescape(SubSeq(body, 3, Len(body)))
                   IN [ok |-> rest.ok, s |-> <<body[2]>> \o rest.s]
              ELSE [ok |-> FALSE, s |-> <<>>]
    ELSE LET rest == Unescape(Tail(body))
         IN [ok |-> rest.ok, s |-> <<Head(body)>> \o rest.s]

\* JSON.parse(text): [threw, value]; a text that is no JSON throws SyntaxError
JSON_parse(text) ==
    LET fails == [threw |-> TRUE, value |-> JSUndefined]
        gives(v) == [threw |-> FALSE, value |-> v]
    IN IF text = <<"t", "r", "u", "e">> THEN gives(JSBool(TRUE))
       ELSE IF text = <<"f", "a", "l", "s", "e">> THEN gives(JSBool(FALSE))
       ELSE IF text = <<"n", "u", "l", "l">> THEN gives(JSNull)
       ELSE IF text = <<"[", "]">> THEN gives(JSArray)
       ELSE IF text # <<>> /\ \A i \in 1..Len(text) : IsDigit(text[i])
            THEN IF Len(text) > 1 /\ text[1] = "0" THEN fails
                 ELSE gives(JSNum(NumValue(text)))
       ELSE IF Len(text) >= 2 /\ text[1] = Quote /\ text[Len(text)] = Quote
            THEN LET inner == Unescape(SubSeq(text, 2, Len(text) - 1))
                 IN IF inner.ok THEN gives(JSStr(inner.s)) ELSE fails
       ELSE fails

\* localStorage.getItem(key) when the key is absent
NoText == [present |-> FALSE, text |-> <<>>]

\* StorageManager.get without the try block: [threw, value]; getItem throws
\* when the store is unavailable, and the empty text is falsy
StorageManager_read(item, defaultValue, available) ==
    IF ~available THEN [threw |-> TRUE, value |-> JSUndefined]
    ELSE IF item.present /\ item.text # <<>> THEN JSON_parse(item.text)
    ELSE [threw |-> FALSE, value |-> defaultValue]

\* a get that hands back the default for every falsy stored value
StorageManager_get_FalsyDefault(item, defaultValue, available) ==
    LET r == StorageManager_read(item, defaultValue, available)
        falsy == \/ r.value \in {JSBool(FALSE), JSNum(0), JSStr(<<>>), JSNull}
    IN [threw |-> FALSE,
        value |-> IF r.threw \/ falsy THEN defaultValue ELSE r.value]

\* StorageManager.get(key, defaultValue): [threw, value]
StorageManager_get(item, defaultValue, available) ==
    LET r == StorageManager_read(item, defaultValue, available)
    IN [threw |-> FALSE, value |-> IF r.threw THEN defaultValue ELSE r.value]

\* StorageManager.set(key, value): [threw, ret, item]; setItem throws when
\* the store rejects the write
StorageManager_set(item, value, rejects) ==
    IF rejects THEN [threw |-> StorageSetRaises(rejects), ret |-> FALSE, item |-> item]
    ELSE [threw |-> FALSE, ret |-> TRUE,
          item |-> [present |-> TRUE, text |-> JSON_stringify(value)]]

(***************************************************************************)
(* Streak ledger.                                                          *)
(***************************************************************************)
NullDate == <<>>

defaultData ==
    [currentStreak |-> 0, longestStreak |-> 0,
     lastWriteDate |-> NullDate, writingDays |-> <<>>]

getStreakData(item) == StorageGet(item, defaultData)

\* the loop of addWritingDay: i runs from length - 2 down to 0
RECURSIVE StreakLoop(_, _, _)
StreakLoop(sortedDays, i, currentStreak) ==
    IF i < 1 THEN currentStreak
    ELSE IF dayDiff(sortedDays[i + 1], sortedDays[i]) = 1
         THEN StreakLoop(sortedDays, i - 1, currentStreak + 1)
         ELSE currentStreak

\* ComputeStreak with the longest streak overwritten by the current one
ComputeStreak_OverwriteLongest(streakData, date) ==
    LET sortedDays    == SortDays(Append(streakData.writingDays, date))
        currentStreak == StreakLoop(sortedDays, Len(sortedDays) - 1, 1)
    IN  [currentStreak |-> currentStreak,
         longestStreak |-> currentStreak,
         lastWriteDate |-> date,
         writingDays   |-> sortedDays]

\* ComputeStreak with the update of the longest streak left out
ComputeStreak_StaleLongest(streakData, date) ==
    LET sortedDays    == SortDays(Append(streakData.writingDays, date))
        currentStreak == StreakLoop(sortedDays, Len(sortedDays) - 1, 1)
    IN  [currentStreak |-> currentStreak,
         longestStreak |-> streakData.longestStreak,
         lastWriteDate |-> date,
         writingDays   |-> sortedDays]

\* StreakStorage.addWritingDay, the ledger it computes for a date that is
\* not yet in writingDays
ComputeStreak(streakData, date) ==
    LET sortedDays    == SortDays(Append(streakData.writingDays, date))
        currentStreak == StreakLoop(sortedDays, Len(sortedDays) - 1, 1)
    IN  [currentStreak |-> currentStreak,
         longestStreak |-> IF currentStreak > streakData.longestStreak
                           THEN currentStreak
                           ELSE streakData.longestStreak,
         lastWriteDate |-> date,
         writingDays   |-> sortedDays]

\* addWritingDay with the check for a date already recorded left out
addWritingDay_NoSameDayCheck(item, date, full) ==
    LET streakData == getStreakData(item)
    IN  [ret    |-> ComputeStreak(streakData, date),
         item   |-> StorageSet(item, ComputeStreak(streakData, date), full),
         writes |-> {"writingStreak"}]

\* StreakStorage.addWritingDay: the ledger it returns (ret), the stored item
\* afterwards (item) and the keys it passed to StorageManager.set (writes)
addWritingDay(item, date, full) ==
    LET streakData == getStreakData(item)
    IN  IF Includes(streakData.writingDays, date)
        THEN [ret |-> streakData, item |-> item, writes |-> {}]
        ELSE [ret    |-> ComputeStreak(streakData, date),
              item   |-> StorageSet(item, ComputeStreak(streakData, date), full),
              writes |-> {"writingStreak"}]

(***************************************************************************)
(* The writing area's text and the word count.                             *)
(***************************************************************************)
IsWhitespace(c) == c = " "

RECURSIVE TrimStart(_)
TrimStart(text) ==
    IF text # <<>> /\ IsWhitespace(Head(text)) THEN TrimStart(Tail(text)) ELSE text

RECURSIVE TrimEnd(_)
TrimEnd(text) ==
    IF text # <<>> /\ IsWhitespace(text[Len(text)])
    THEN TrimEnd(SubSeq(text, 1, Len(text) - 1))
    ELSE text

\* String.prototype.trim
Trim(text) == TrimEnd(TrimStart(text))

\* countWords: text.trim().split(/\s+/).filter(word => word.length > 0).length
countWords(text) ==
    IF text = <<>> THEN 0
    ELSE LET t == Trim(text)
         IN  Cardinality({i \in 1..Len(t) :
                 /\ ~IsWhitespace(t[i])
                 /\ (i = 1 \/ IsWhitespace(t[i - 1]))})

\* validateWritingInput with the trim left out
validateWritingInput_NoTrim(text) ==
    IF Len(text) = 0
    THEN [valid |-> FALSE, text |-> <<>>, wordCount |-> 0]
    ELSE [valid |-> TRUE, text |-> text, wordCount |-> countWords(text)]

\* UIManager.validateWritingInput
validateWritingInput(text) ==
    IF Len(Trim(text)) = 0
    THEN [valid |-> FALSE, text |-> <<>>, wordCount |-> 0]
    ELSE [valid |-> TRUE, text |-> text, wordCount |-> countWords(text)]

\* n words, one space between them
Words(n) == [i \in 1..(2 * n - 1) |-> IF i % 2 = 1 THEN "a" ELSE " "]

\* what the writing area can hold when a handler runs
Texts ==
    { <<>>,
      <<" ", " ">>,
      Words(MIN_WORDS_FOR_STREAK - 1),
      <<" ">> \o Words(MIN_WORDS_FOR_STREAK) \o <<" ", " ">> }

\* trim, word count and validation of each of them, computed once
TextFacts ==
    [text \in Texts |->
        [trimmedLength |-> Len(Trim(text)),
         words         |-> countWords(text),
         validation    |-> validateWritingInput(text)]]

(***************************************************************************)
(* Entries archive.                                                        *)
(***************************************************************************)
\* EntriesStorage.getEntries / getEntries
getEntries(item) == StorageGet(item, <<>>)

\* what JSON.parse(JSON.stringify(mode)) is: a Promise becomes {}
StoredMode(mode) == IF mode = "Promise" THEN "{}" ELSE mode

\* a saveEntry that pushes the entry to the end of the archive
EntriesStorage_saveEntry_Append(item, prompt, text, wordCount, mode, now, full) ==
    LET entry == [id |-> now, date |-> now, prompt |-> prompt, text |-> text,
                  wordCount |-> wordCount, mode |-> StoredMode(mode)]
    IN  StorageSet(item, getEntries(item) \o <<entry>>, full)

\* EntriesStorage.saveEntry / saveEntryToHistory: the stored item afterwards
EntriesStorage_saveEntry(item, prompt, text, wordCount, mode, now, full) ==
    LET entry == [id |-> now, date |-> now, prompt |-> prompt, text |-> text,
                  wordCount |-> wordCount, mode |-> StoredMode(mode)]
    IN  StorageSet(item, <<entry>> \o getEntries(item), full)

KeepEntry(e, entryId) == e.id # entryId

\* EntriesStorage.deleteEntry with the filter keeping the matching entries
EntriesStorage_deleteEntry_KeepsMatch(item, entryId, full) ==
    LET Match(e) == ~KeepEntry(e, entryId)
    IN  StorageSet(item, SelectSeq(getEntries(item), Match), full)

\* EntriesStorage.deleteEntry: the stored item afterwards
EntriesStorage_deleteEntry(item, entryId, full) ==
    LET Keep(e) == KeepEntry(e, entryId)
    IN  StorageSet(item, SelectSeq(getEntries(item), Keep), full)

\* EntriesStorage.clearAllEntries: the stored item afterwards
EntriesStorage_clearAllEntries(item) == StorageRemove(item, <<>>)

(***************************************************************************)
(* Streak manager.                                                         *)
(***************************************************************************)
\* StreakManager.getStreakMessage / the messages of celebrateStreak
getStreakMessage(streak) ==
    IF streak \in {1, 3, 7, 14, 30} THEN "milestone"
    ELSE IF streak % 10 = 0 /\ streak > 30 THEN "multiple of ten"
    ELSE "none"

\* StreakManager.celebrateStreak: the callback it schedules
celebrateStreak(streak, fn) ==
    IF getStreakMessage(streak) # "none"
    THEN {[fn |-> fn, streak |-> streak]}
    ELSE {}

\* StreakManager.updateStreak: the stored ledger afterwards (item) and the
\* callbacks it schedules (timers)
updateStreak(item, wordCount, day, full) ==
    IF wordCount < MIN_WORDS_FOR_STREAK
    THEN [item |-> item, timers |-> {}]
    ELSE LET r == addWritingDay(item, getCurrentDateString(day), full)
         IN  [item   |-> r.item,
              timers |-> celebrateStreak(r.ret.currentStreak, "celebrate")]

\* updateStreak of app-fixed.js without the early return on a recorded date
updateStreakFixed_NoSameDayCheck(item, day, full) ==
    LET today      == getCurrentDateString(day)
        streakData == getStreakData(item)
    IN  [item   |-> StorageSet(item, ComputeStreak(streakData, today), full),
         timers |-> celebrateStreak(ComputeStreak(streakData, today).currentStreak,
                                    "celebrateFixed")]

\* updateStreak of app-fixed.js
updateStreakFixed(item, day, full) ==
    LET today      == getCurrentDateString(day)
        streakData == getStreakData(item)
    IN  IF Includes(streakData.writingDays, today)
        THEN [item |-> item, timers |-> {}]
        ELSE [item   |-> StorageSet(item, ComputeStreak(streakData, today), full),
              timers |-> celebrateStreak(ComputeStreak(streakData, today).currentStreak,
                                         "celebrateFixed")]

(***************************************************************************)
(* Save and copy: what the handlers persist for a validated text.          *)
(***************************************************************************)
\* RecordEntry archiving whatever the word count
RecordEntry_AnyLength(v, sItem, eItem, prompt, now, full) ==
    [streak  |-> updateStreak(sItem, v.wordCount, now[1], full).item,
     timers  |-> updateStreak(sItem, v.wordCount, now[1], full).timers,
     entries |-> EntriesStorage_saveEntry(eItem, prompt, v.text, v.wordCount,
                                          "Promise", now, full)]

\* ActionsManager.saveEntry / copyToClipboard, "Update streak and save to
\* history if qualifying"; getCurrentMode() hands saveEntryToHistory a Promise
RecordEntry(v, sItem, eItem, prompt, now, full) ==
    IF v.wordCount >= MIN_WORDS_FOR_STREAK
    THEN [streak  |-> updateStreak(sItem, v.wordCount, now[1], full).item,
          timers  |-> updateStreak(sItem, v.wordCount, now[1], full).timers,
          entries |-> EntriesStorage_saveEntry(eItem, prompt, v.text, v.wordCount,
                                               "Promise", now, full)]
    ELSE [streak |-> sItem, timers |-> {}, entries |-> eItem]

\* window.saveEntry / window.copyToClipboard of app-fixed.js
RecordEntryFixed(text, words, sItem, eItem, prompt, mode, now, full) ==
    IF words >= MIN_WORDS_FOR_STREAK
    THEN [streak  |-> updateStreakFixed(sItem, now[1], full).item,
          timers  |-> updateStreakFixed(sItem, now[1], full).timers,
          entries |-> EntriesStorage_saveEntry(eItem, prompt, text, words,
                                               mode, now, full)]
    ELSE [streak |-> sItem, timers |-> {}, entries |-> eItem]

(***************************************************************************)
(* Delete and clear: the archive a handler leaves, given the number of     *)
(* confirm() dialogs the user accepted.                                    *)
(***************************************************************************)
\* HistoryManager.deleteEntry / window.deleteEntry
HistoryDeleteEntry(item, entryId, confirms, full) ==
    IF confirms < 1 THEN item
    ELSE EntriesStorage_deleteEntry(item, entryId, full)

\* clearAllEntries without the second confirmation
HistoryClearAll_OneConfirm(item, confirms) ==
    IF confirms < 1 THEN item
    ELSE EntriesStorage_clearAllEntries(item)

\* HistoryManager.clearAllEntries / window.clearAllHistory
HistoryClearAll(item, confirms) ==
    IF confirms < 1 THEN item
    ELSE IF confirms < 2 THEN item
    ELSE EntriesStorage_clearAllEntries(item)

(***************************************************************************)
(* Email offers.                                                           *)
(***************************************************************************)
\* (now - lastBackupOffer) < APP_CONFIG.EMAIL_OFFER_COOLDOWN
WithinCooldown(now, lastOffer) ==
    \/ now[1] - lastOffer[1] < EMAIL_OFFER_COOLDOWN_DAYS
    \/ /\ now[1] - lastOffer[1] = EMAIL_OFFER_COOLDOWN_DAYS
       /\ now[2] - lastOffer[2] < 0

\* an offer that looks at the cooldown only
BackupOfferShown_IgnoresDecline(declinedItem, lastOfferItem, now) ==
    ~(/\ StorageGet(lastOfferItem, <<0, 0>>) # <<0, 0>>
      /\ WithinCooldown(now, StorageGet(lastOfferItem, <<0, 0>>)))

\* EmailManager.offerEmailBackup: whether the confirm dialog is shown
BackupOfferShown(declinedItem, lastOfferItem, now) ==
    /\ ~StorageGet(declinedItem, FALSE)
    /\ ~(/\ StorageGet(lastOfferItem, <<0, 0>>) # <<0, 0>>
         /\ WithinCooldown(now, StorageGet(lastOfferItem, <<0, 0>>)))

(***************************************************************************)
(* Prompts engine.  A list that may be missing is [defined, list]: a       *)
(* missing one is undefined (falsy), a present one is truthy even when it  *)
(* is empty.                                                               *)
(***************************************************************************)
MAX_RECENT_PROMPTS == 10

LOADING_PROMPTS == "Loading your writing prompt..."

\* promptArray[0] of an empty array
Undefined == "undefined"

\* the text of the #currentPrompt element before any script has set it
MarkupPrompt == "#currentPrompt"

Absent == [defined |-> FALSE, list |-> <<>>]

List(l) == [defined |-> TRUE, list |-> l]

TimeCategories == {"morning", "evening", "monday", "friday", "weekend"}

Moods == {"reflective", "grateful", "energized", "creative", "struggling"}

NoTimeAware == [defined |-> FALSE, of |-> [c \in TimeCategories |-> Absent]]

NoMoods == [defined |-> FALSE, of |-> [m \in Moods |-> Absent]]

NoSeasonal == [defined |-> FALSE, current |-> "", of |-> Absent]

FALLBACK_life ==
    <<
        "What's one thing that made you smile today?",
        "Describe a moment when you felt completely at peace.",
        "What's something you're grateful for right now?",
        "If you could tell your past self one thing, what would it be?",
        "What's a small win you had recently?",
        "Describe your ideal Sunday morning.",
        "What's something new you learned this week?",
        "How do you want to feel by the end of today?",
        "What's a challenge you're facing, and how might you approach it?",
        "Describe a person who has positively impacted your life.",
        "What's something you're looking forward to?",
        "How has your perspective on something changed recently?",
        "What would you do if you knew you couldn't fail?",
        "What's a habit you'd like to develop?",
        "How do you show kindness to yourself?",
        "What's something that always makes you laugh?",
        "Describe a place where you feel most like yourself.",
        "What's the best advice you've ever received?",
        "How do you like to celebrate small victories?",
        "What's something you're curious about right now?" >>

FALLBACK_career ==
    <<
        "What's the most valuable skill you've developed this year?",
        "Describe a project you're proud of and why.",
        "What's a professional challenge you're currently navigating?",
        "How do you define success in your career?",
        "What's something you want to learn to advance professionally?",
        "Describe your ideal work environment.",
        "What's a piece of feedback that changed how you work?",
        "How do you maintain work-life balance?",
        "What's a professional relationship that has been meaningful to you?",
        "Describe a time when you had to step outside your comfort zone at work." >>

FALLBACK_PROMPTS ==
    [life |-> List(FALLBACK_life), career |-> List(FALLBACK_career),
     timeAware |-> NoTimeAware, moods |-> NoMoods, seasonal |-> NoSeasonal]

Min(a, b) == IF a < b THEN a ELSE b

\* Array.prototype.slice(0, k)
Take(seq, k) == SubSeq(seq, 1, Min(k, Len(seq)))

\* list || fallback
ListOr(category, fallback) == IF category.defined THEN category.list ELSE fallback

\* getTimeCategory with the day of the week looked at before the hour
getTimeCategory_WeekdayFirst(hour, day) ==
    IF day = 1 THEN "monday"
    ELSE IF day = 5 THEN "friday"
    ELSE IF day = 0 \/ day = 6 THEN "weekend"
    ELSE IF hour >= 5 /\ hour < 12 THEN "morning"
    ELSE IF hour >= 18 \/ hour < 5 THEN "evening"
    ELSE "null"

\* getTimeCategory; "null" is null
getTimeCategory(hour, day) ==
    IF hour >= 5 /\ hour < 12 THEN "morning"
    ELSE IF hour >= 18 \/ hour < 5 THEN "evening"
    ELSE IF day = 1 THEN "monday"
    ELSE IF day = 5 THEN "friday"
    ELSE IF day = 0 \/ day = 6 THEN "weekend"
    ELSE "null"

\* PromptsManager.getPrompts / getPrompts
getPrompts(external) ==
    IF external.isNull THEN FALLBACK_PROMPTS ELSE external.prompts

\* prompts.moods?.[mood] || []
MoodList(prompts, mood) ==
    IF prompts.moods.defined THEN ListOr(prompts.moods.of[mood], <<>>) ELSE <<>>

\* PromptsManager.getMoodAwarePrompts
getMoodAwarePrompts(prompts, mode, hour, day) ==
    IF mode = "personal"
    THEN IF hour >= 18 \/ hour < 6
         THEN Take(MoodList(prompts, "reflective"), 3)
                  \o Take(MoodList(prompts, "grateful"), 3)
         ELSE IF hour >= 6 /\ hour < 12
         THEN Take(MoodList(prompts, "energized"), 3)
                  \o Take(MoodList(prompts, "creative"), 2)
         ELSE Take(MoodList(prompts, "reflective"), 2)
                  \o Take(MoodList(prompts, "creative"), 2)
    ELSE Take(MoodList(prompts, "energized"), 3)
             \o (IF day = 1 THEN Take(MoodList(prompts, "struggling"), 2) ELSE <<>>)

\* PromptsManager.getSeasonalPrompts
getSeasonalPrompts(prompts) ==
    IF prompts.seasonal.defined /\ prompts.seasonal.current # ""
    THEN ListOr(prompts.seasonal.of, <<>>)
    ELSE <<>>

\* generateSmartPrompt, step 2: the time-relevant prompts mixed in
TimePrompts(prompts, timeCategory) ==
    IF /\ timeCategory # "null"
       /\ prompts.timeAware.defined
       /\ prompts.timeAware.of[timeCategory].defined
    THEN Take(prompts.timeAware.of[timeCategory].list,
              (Len(prompts.timeAware.of[timeCategory].list) * 3) \div 10)
    ELSE <<>>

\* generateSmartPrompt, steps 1 to 4: the candidates before the filter
AssemblePrompts(prompts, mode, hour, day) ==
    (IF mode = "professional"
     THEN ListOr(prompts.career, FALLBACK_career)
     ELSE ListOr(prompts.life, FALLBACK_life))
        \o TimePrompts(prompts, getTimeCategory(hour, day))
        \o getMoodAwarePrompts(prompts, mode, hour, day)
        \o Take(getSeasonalPrompts(prompts), 3)

\* filterRecentPrompts that looks at the latest prompt of the list only
filterRecentPrompts_LatestOnly(lastUsed, promptArray) ==
    LET NotLatest(prompt) == prompt # lastUsed[1]
        filtered == SelectSeq(promptArray, NotLatest)
    IN  IF Len(lastUsed) = 0 THEN promptArray
        ELSE IF Len(filtered) > 0 THEN filtered ELSE promptArray

\* filterRecentPrompts letting every prompt through
filterRecentPrompts_NoFilter(lastUsed, promptArray) == promptArray

\* PromptsManager.filterRecentPrompts / filterRecentPrompts
filterRecentPrompts(lastUsed, promptArray) ==
    LET NotRecent(prompt) == ~Includes(lastUsed, prompt)
        filtered == SelectSeq(promptArray, NotRecent)
    IN  IF Len(lastUsed) = 0 THEN promptArray
        ELSE IF Len(filtered) > 0 THEN filtered ELSE promptArray

\* generateSmartPrompt, steps 5 and 6, with the final fallback left out
CandidateArray_NoFinalFallback(prompts, mode, hour, day, lastUsed) ==
    filterRecentPrompts(lastUsed, AssemblePrompts(prompts, mode, hour, day))

\* generateSmartPrompt, steps 5 and 6: the array the prompt is drawn from
CandidateArray(prompts, mode, hour, day, lastUsed) ==
    LET promptArray ==
            filterRecentPrompts(lastUsed, AssemblePrompts(prompts, mode, hour, day))
    IN  IF Len(promptArray) = 0
        THEN IF mode = "professional" THEN FALLBACK_career ELSE FALLBACK_life
        ELSE promptArray

\* Math.random(): the draws the model takes
Randoms == {"first", "last"}

\* Math.floor(Math.random() * promptArray.length)
RandomIndex(random, length) ==
    IF length = 0 \/ random = "first" THEN 0 ELSE length - 1

\* promptArray[randomIndex]
Select(promptArray, randomIndex) ==
    IF randomIndex < Len(promptArray) THEN promptArray[randomIndex + 1] ELSE Undefined

\* trackUsedPrompt without the truncation
trackUsedPrompt_NoTruncation(lastUsed, prompt) == <<prompt>> \o lastUsed

\* PromptsManager.trackUsedPrompt / trackUsedPrompt: the list afterwards
trackUsedPrompt(lastUsed, prompt) ==
    IF Len(<<prompt>> \o lastUsed) > MAX_RECENT_PROMPTS
    THEN Take(<<prompt>> \o lastUsed, MAX_RECENT_PROMPTS)
    ELSE <<prompt>> \o lastUsed

\* the distinct prompts shown, latest first, after one more is shown
Remember(distinct, prompt) ==
    LET Other(p) == p # prompt
    IN  Take(<<prompt>> \o SelectSeq(distinct, Other), MAX_RECENT_PROMPTS)

\* what the fetch of prompts.json comes back with: status is "ok" for a 2xx
\* response whose body parsed, else what went wrong; hasPrompts and prompts
\* are the body's prompts member
Fetched(status, hasPrompts, prompts) ==
    [status |-> status, hasPrompts |-> hasPrompts, prompts |-> prompts]

NoFetch == Fetched("none", FALSE, FALSE)

RichPool ==
    [life      |-> List(<<"life 1", "life 2">>),
     career    |-> List(<<"career 1">>),
     timeAware |-> [defined |-> TRUE,
                    of |-> [c \in TimeCategories |->
                               IF c = "morning"
                               THEN List(<<"morning 1", "morning 2",
                                           "morning 3", "morning 4">>)
                               ELSE Absent]],
     moods     |-> [defined |-> TRUE,
                    of |-> [m \in Moods |->
                               IF m = "energized" THEN List(<<"energized 1">>)
                               ELSE IF m = "reflective" THEN List(<<"reflective 1">>)
                               ELSE Absent]],
     seasonal  |-> [defined |-> TRUE, current |-> "winter",
                    of |-> List(<<"winter 1">>)]]

EmptyLifePool ==
    [life |-> List(<<>>), career |-> List(<<"career 1">>),
     timeAware |-> NoTimeAware, moods |-> NoMoods, seasonal |-> NoSeasonal]

MissingCareerPool ==
    [life |-> List(<<"life 1">>), career |-> Absent,
     timeAware |-> NoTimeAware, moods |-> NoMoods, seasonal |-> NoSeasonal]

FetchResults ==
    { Fetched("timeout", FALSE, FALLBACK_PROMPTS),
      Fetched("http 404", FALSE, FALLBACK_PROMPTS),
      Fetched("ok", FALSE, FALLBACK_PROMPTS),
      Fetched("ok", TRUE, RichPool),
      Fetched("ok", TRUE, EmptyLifePool),
      Fetched("ok", TRUE, MissingCareerPool) }

Null == [isNull |-> TRUE, prompts |-> FALLBACK_PROMPTS]

External(prompts) == [isNull |-> FALSE, prompts |-> prompts]

\* loadExternalPrompts, "Validate prompt structure"
ValidStructure(result) ==
    /\ result.status = "ok"
    /\ result.hasPrompts
    /\ result.prompts.life.defined
    /\ result.prompts.career.defined

\* PromptsManager.loadExternalPrompts (app.js) and loadExternalPrompts
\* (app-fixed.js).  threw: app.js calls PreferencesStorage.set in its catch
\* block, and PreferencesStorage has no such method.
loadExternalPrompts(result, b) ==
    IF ValidStructure(result)
    THEN [external |-> External(result.prompts), loaded |-> TRUE,
          ret |-> TRUE, threw |-> FALSE]
    ELSE [external |-> External(FALLBACK_PROMPTS), loaded |-> TRUE,
          ret |-> FALSE, threw |-> (b = "modular")]

\* displayPrompt / displaySmartPrompt on the page st: generateSmartPrompt,
\* trackUsedPrompt and the assignment to the #currentPrompt element
Display(st, loaded, external, hour, day, random, full) ==
    IF ~loaded
    THEN [st EXCEPT !.prompt = LOADING_PROMPTS,
                    !.returned = Append(@, [prompt |-> LOADING_PROMPTS,
                                            mode |-> st.mode, tracked |-> FALSE,
                                            candidates |-> <<>>])]
    ELSE LET promptArray == CandidateArray(getPrompts(external), st.mode, hour, day,
                                           st.lastUsed)
             selectedPrompt ==
                 Select(promptArray, RandomIndex(random, Len(promptArray)))
         IN  [st EXCEPT !.prompt = selectedPrompt,
                        !.lastUsed = trackUsedPrompt(st.lastUsed, selectedPrompt),
                        !.item = StorageSet(@, trackUsedPrompt(st.lastUsed, selectedPrompt),
                                            full),
                        !.shown = Remember(@, selectedPrompt),
                        !.selections = @ + 1,
                        !.returned = Append(@, [prompt |-> selectedPrompt,
                                                mode |-> st.mode, tracked |-> TRUE,
                                                candidates |->
                                                    AssemblePrompts(getPrompts(external),
                                                        st.mode, hour, day)])]

(***************************************************************************)
(* The countdown timer.  tm is the Timer object together with the          *)
(* browser's intervals (live, issued) and what the call did: the callbacks *)
(* it invoked and whether it scheduled the completion alert.  The display  *)
(* and the pause button show timeLeft and isRunning and are left out.  The *)
(* callbacks are observers: they call no method of the timer.              *)
(***************************************************************************)
TimerObject ==
    [timeLeft |-> timeLeft, interval |-> interval, isRunning |-> isRunning,
     onUpdate |-> onUpdate, onComplete |-> onComplete, live |-> liveIntervals,
     issued |-> issued, invoked |-> {}, exposed |-> {}, alert |-> FALSE,
     ret |-> TRUE]

\* Timer.clearInterval
Timer_clearInterval(tm) ==
    IF tm.interval # 0
    THEN [tm EXCEPT !.live = @ \ {tm.interval}, !.interval = 0]
    ELSE tm

\* Timer.complete, celebrate included
Timer_complete(tm) ==
    [Timer_clearInterval([tm EXCEPT !.isRunning = FALSE]) EXCEPT
        !.timeLeft = 0,
        !.exposed = @ \cup {0},
        !.alert = TRUE,
        !.invoked = IF tm.onComplete THEN @ \cup {"onComplete"} ELSE @]

\* a start that does not look at isRunning
Timer_start_NoGuard(tm) ==
    [tm EXCEPT !.isRunning = TRUE,
               !.interval = tm.issued + 1,
               !.live = @ \cup {tm.issued + 1},
               !.issued = @ + 1]

\* Timer.start: setInterval gives the next id
Timer_start(tm) ==
    IF tm.isRunning THEN [tm EXCEPT !.ret = FALSE]
    ELSE [tm EXCEPT !.isRunning = TRUE,
                    !.interval = tm.issued + 1,
                    !.live = @ \cup {tm.issued + 1},
                    !.issued = @ + 1]

\* a pause that leaves the interval set
Timer_pause_NoClear(tm) ==
    IF ~tm.isRunning THEN [tm EXCEPT !.ret = FALSE]
    ELSE [tm EXCEPT !.isRunning = FALSE]

\* Timer.pause
Timer_pause(tm) ==
    IF ~tm.isRunning THEN [tm EXCEPT !.ret = FALSE]
    ELSE Timer_clearInterval([tm EXCEPT !.isRunning = FALSE])

\* Timer.reset
Timer_reset(tm) ==
    [Timer_pause(tm) EXCEPT !.timeLeft = TIMER_DURATION,
                            !.exposed = @ \cup {TIMER_DURATION}, !.ret = TRUE]

\* Timer.cleanup
Timer_cleanup(tm) ==
    [Timer_clearInterval(tm) EXCEPT !.isRunning = FALSE, !.onUpdate = FALSE,
                                    !.onComplete = FALSE]

\* the callback start hands to setInterval
Timer_tick(tm) ==
    LET counted == [tm EXCEPT !.timeLeft = @ - 1,
                              !.exposed = {tm.timeLeft - 1},
                              !.invoked = IF tm.onUpdate THEN {"onUpdate"} ELSE {}]
    IN  IF counted.timeLeft <= 0 THEN Timer_complete(counted) ELSE counted

(***************************************************************************)
(* State after construction.                                               *)
(***************************************************************************)
NoLast ==
    [op |-> "none", date |-> NullDate, had |-> FALSE, writes |-> {},
     ok |-> TRUE, streak |-> 0, blank |-> FALSE, length |-> 0,
     valid |-> TRUE, words |-> 0, alert |-> "none", confirms |-> 0,
     id |-> <<0, 0>>, found |-> FALSE, ret |-> TRUE,
     returned |-> <<>>, fetched |-> NoFetch,
     got |-> JSNull, given |-> JSNull, raised |-> FALSE, available |-> TRUE,
     left |-> 0, invoked |-> {}, hour |-> 0, day |-> 0, category |-> "null",
     exposed |-> {}, scheduled |-> {}]

Days == {CivilFromDays(FirstDay + i) : i \in 0..(NumDays - 1)}

\* no confirm() dialog of an offer shown yet: backupAt is the time of the
\* latest backup offer, streak the number of streak-protection offers, lost
\* the offers whose preference the store did not take
NoOffers == [declined |-> FALSE, backupAt |-> <<0, 0>>, streak |-> 0, lost |-> {}]

InitStore ==
    /\ entriesItem = NoItem(<<>>)
    /\ backupDeclinedItem = NoItem(FALSE)
    /\ lastBackupOfferItem = NoItem(<<0, 0>>)
    /\ streakEmailOfferedItem = NoItem(FALSE)
    /\ offers = NoOffers
    /\ timers = {}
    /\ last = NoLast

\* the recency cache once startup has shown its prompts from the fallback
\* pool: both builds display a prompt and set the mode, which displays another
StartedRecent == <<FALLBACK_life[5], FALLBACK_life[1]>>

\* the page before its first event: no initialization started
NoBoot == [dom |-> FALSE, load |-> FALSE, awaiting |-> 0, fetches |-> 0,
           listeners |-> 0, runs |-> 0]

\* one initialization is awaiting the pool, both events over
Booting == [dom |-> TRUE, load |-> TRUE, awaiting |-> 1, fetches |-> 1,
            listeners |-> 0, runs |-> 0]

\* the page once one initialization has run to its end
Booted == [dom |-> TRUE, load |-> TRUE, awaiting |-> 0, fetches |-> 1,
           listeners |-> 1, runs |-> 1]

\* no key written through the wrapper yet
WrapperInit ==
    /\ rawItem = NoText
    /\ stored = [valid |-> FALSE, value |-> JSNull]

\* new Timer()
TimerInit ==
    /\ timeLeft = TIMER_DURATION
    /\ interval = 0
    /\ isRunning = FALSE
    /\ onUpdate = FALSE
    /\ onComplete = FALSE
    /\ liveIntervals = {}
    /\ issued = 0
    /\ cancelled = FALSE
    /\ pendingChecks = 0
    /\ pendingStarts = 0

\* the page of build once startup is over
InitPage ==
    /\ nowDay = FirstDay
    /\ nowMs = 0
    /\ storeFull = FALSE
    /\ currentMode = "personal"
    /\ currentPrompt = FALLBACK_life[5]
    /\ externalPrompts = External(FALLBACK_PROMPTS)
    /\ promptsLoaded = TRUE
    /\ lastUsedPrompts = StartedRecent
    /\ recentPromptsItem = [present |-> TRUE, value |-> StartedRecent]
    /\ shown = StartedRecent
    /\ selections = Len(StartedRecent)
    /\ initialized = TRUE
    /\ startup = "returned"
    /\ boot = Booted
    /\ WrapperInit
    /\ TimerInit

\* the ledger specification: StreakStorage on an empty store
LedgerInit ==
    /\ build = "modular"
    /\ InitPage
    /\ InitStore
    /\ streakItem = NoItem(defaultData)

(***************************************************************************)
(* The environment: the store fills up or is freed.                        *)
(***************************************************************************)
QuotaChange ==
    /\ storeFull' = ~storeFull
    /\ last' = NoLast
    /\ UNCHANGED <<clock, archive, ledger, recency, preferences, page, timers>>

(***************************************************************************)
(* StreakStorage.addWritingDay(date) called with any date.                 *)
(***************************************************************************)
AddWritingDay(date) ==
    LET r == addWritingDay(streakItem, date, storeFull)
    IN  /\ streakItem' = r.item
        /\ last' = [NoLast EXCEPT !.op = "addWritingDay",
                                  !.date = date,
                                  !.had = Includes(getStreakData(streakItem).writingDays, date),
                                  !.writes = r.writes,
                                  !.ok = ~storeFull,
                                  !.raised = (r.writes # {}
                                              /\ StorageSetRaises(storeFull)),
                                  !.streak = r.ret.currentStreak]
        /\ UNCHANGED <<clock, storeFull, archive, recency, preferences, page,
                       timers>>

LedgerNext ==
    \/ \E date \in Days : AddWritingDay(date)
    \/ QuotaChange

\* the ledger driven directly through StreakStorage
LedgerSpec == LedgerInit /\ [][LedgerNext]_vars

(***************************************************************************)
(* The application: a page running one of the two builds on a store that   *)
(* earlier sessions may have written.                                      *)
(***************************************************************************)
Now == <<nowDay, nowMs>>

Today == getCurrentDateString(nowDay)

IsBlank(text) == \A i \in 1..Len(text) : text[i] = " "

\* the ledger after writing on each of the n days before the first day
RECURSIVE PriorLedger(_)
PriorLedger(n) ==
    IF n = 0 THEN NoItem(defaultData)
    ELSE addWritingDay(PriorLedger(n - 1),
                       CivilFromDays(FirstDay - PriorDays + n - 1), FALSE).item

AppInit ==
    /\ build \in {"modular", "fixed"}
    /\ InitPage
    /\ InitStore
    /\ streakItem \in {NoItem(defaultData), PriorLedger(PriorDays)}

\* a millisecond passes
TickMs ==
    /\ nowMs < MaxMsOffset
    /\ nowMs' = nowMs + 1
    /\ last' = NoLast
    /\ UNCHANGED <<nowDay, storeFull, archive, ledger, recency, preferences,
                   page, timers>>

\* the clock reaches a later day
NextDay(day) ==
    /\ day > nowDay
    /\ nowDay' = day
    /\ nowMs' = 0
    /\ last' = NoLast
    /\ UNCHANGED <<storeFull, archive, ledger, recency, preferences, page,
                   timers>>

Bounded == Len(getEntries(entriesItem')) <= MaxEntries

HandlerRan(op, text, words) ==
    [NoLast EXCEPT !.op = op, !.date = Today,
                   !.had = Includes(getStreakData(streakItem).writingDays, Today),
                   !.ok = ~storeFull, !.blank = IsBlank(text),
                   !.length = Len(text), !.words = words]

\* ActionsManager.saveEntry; downloaded is what downloadTextFile returns
SaveEntry(text, downloaded) ==
    LET v == TextFacts[text].validation
        r == RecordEntry(v, streakItem, entriesItem, currentPrompt, Now, storeFull)
    IN  /\ build = "modular"
        /\ IF ~v.valid
           THEN /\ last' = [HandlerRan("saveEntry", text, v.wordCount) EXCEPT
                               !.valid = FALSE, !.alert = "NO_TEXT_DOWNLOAD",
                               !.ret = FALSE]
                /\ UNCHANGED <<archive, ledger, timers>>
           ELSE /\ streakItem' = r.streak
                /\ entriesItem' = r.entries
                /\ timers' = timers \cup r.timers \cup
                       (IF downloaded
                        THEN {[fn |-> "offerEmailBackup", streak |-> 0]}
                        ELSE {})
                /\ last' = [HandlerRan("saveEntry", text, v.wordCount) EXCEPT
                               !.alert = IF ~downloaded THEN "none"
                                         ELSE IF v.wordCount >= MIN_WORDS_FOR_STREAK
                                              THEN "ENTRY_DOWNLOADED"
                                              ELSE "ENTRY_DOWNLOADED_SHORT",
                               !.ret = downloaded, !.scheduled = r.timers]
        /\ Bounded
        /\ UNCHANGED <<clock, storeFull, recency, preferences, page>>

\* ActionsManager.copyToClipboard; copied is what the clipboard helper returns
CopyToClipboard(text, copied) ==
    LET v == TextFacts[text].validation
        r == RecordEntry(v, streakItem, entriesItem, currentPrompt, Now, storeFull)
    IN  /\ build = "modular"
        /\ IF ~v.valid
           THEN /\ last' = [HandlerRan("copyToClipboard", text, v.wordCount) EXCEPT
                               !.valid = FALSE, !.alert = "NO_TEXT_COPY",
                               !.ret = FALSE]
                /\ UNCHANGED <<archive, ledger, timers>>
           ELSE /\ streakItem' = r.streak
                /\ entriesItem' = r.entries
                /\ timers' = timers \cup r.timers \cup
                       (IF copied
                        THEN {[fn |-> "offerEmailBackup", streak |-> 0]}
                        ELSE {})
                /\ last' = [HandlerRan("copyToClipboard", text, v.wordCount) EXCEPT
                               !.alert = IF ~copied THEN "CLIPBOARD_FALLBACK"
                                         ELSE IF v.wordCount >= MIN_WORDS_FOR_STREAK
                                              THEN "ENTRY_COPIED"
                                              ELSE "ENTRY_COPIED_SHORT",
                               !.ret = copied, !.scheduled = r.timers]
        /\ Bounded
        /\ UNCHANGED <<clock, storeFull, recency, preferences, page>>

\* window.saveEntry (op = "saveEntry") and window.copyToClipboard
\* (op = "copyToClipboard") of app-fixed.js
FixedRecord(op, text, copied) ==
    LET words == TextFacts[text].words
        r == RecordEntryFixed(text, words, streakItem, entriesItem, currentPrompt,
                              currentMode, Now, storeFull)
    IN  /\ build = "fixed"
        /\ IF TextFacts[text].trimmedLength = 0
           THEN /\ last' = [HandlerRan(op, text, 0) EXCEPT
                               !.valid = FALSE,
                               !.alert = IF op = "saveEntry"
                                         THEN "NO_TEXT_DOWNLOAD"
                                         ELSE "NO_TEXT_COPY"]
                /\ UNCHANGED <<archive, ledger, timers>>
           ELSE /\ streakItem' = r.streak
                /\ entriesItem' = r.entries
                /\ timers' = timers \cup r.timers
                /\ last' = [HandlerRan(op, text, words) EXCEPT
                               !.alert =
                                   IF op = "copyToClipboard" /\ ~copied
                                   THEN "CLIPBOARD_FALLBACK"
                                   ELSE IF op = "saveEntry"
                                   THEN IF words >= MIN_WORDS_FOR_STREAK
                                        THEN "ENTRY_DOWNLOADED"
                                        ELSE "ENTRY_DOWNLOADED_SHORT"
                                   ELSE IF words >= MIN_WORDS_FOR_STREAK
                                        THEN "ENTRY_COPIED"
                                        ELSE "ENTRY_COPIED_SHORT",
                               !.scheduled = r.timers]
        /\ Bounded
        /\ UNCHANGED <<clock, storeFull, recency, preferences, page>>

FixedSaveEntry(text) == FixedRecord("saveEntry", text, TRUE)

FixedCopyToClipboard(text, copied) == FixedRecord("copyToClipboard", text, copied)

NoSuchId == <<0, 0>>

\* the ids the Delete buttons of the rendered history carry, and one more
EntryIds ==
    {getEntries(entriesItem)[i].id : i \in 1..Len(getEntries(entriesItem))}
        \cup {NoSuchId}

HasEntry(entryId) ==
    \E i \in 1..Len(getEntries(entriesItem)) : getEntries(entriesItem)[i].id = entryId

\* localStorage: the item under each key the application uses
LocalStorage ==
    [WRITING_ENTRIES |-> entriesItem, STREAK_DATA |-> streakItem,
     RECENT_PROMPTS |-> recentPromptsItem, BACKUP_DECLINED |-> backupDeclinedItem,
     LAST_BACKUP_OFFER |-> lastBackupOfferItem,
     STREAK_EMAIL_OFFERED |-> streakEmailOfferedItem]

\* a history handler that takes the streak ledger away with the entries
StoreEntries_DropsLedger(store, item) ==
    [store EXCEPT !.WRITING_ENTRIES = item,
                  !.STREAK_DATA = IF item = store.WRITING_ENTRIES THEN @
                                  ELSE NoItem(defaultData)]

\* localStorage after a history handler: deleteEntry sets, clearAllEntries
\* removes, STORAGE_KEYS.WRITING_ENTRIES and no other key
StoreEntries(store, item) == [store EXCEPT !.WRITING_ENTRIES = item]

LocalStorageBecomes(store) ==
    /\ entriesItem' = store.WRITING_ENTRIES
    /\ streakItem' = store.STREAK_DATA
    /\ recentPromptsItem' = store.RECENT_PROMPTS
    /\ backupDeclinedItem' = store.BACKUP_DECLINED
    /\ lastBackupOfferItem' = store.LAST_BACKUP_OFFER
    /\ streakEmailOfferedItem' = store.STREAK_EMAIL_OFFERED

\* HistoryManager.deleteEntry (app.js) and window.deleteEntry (app-fixed.js)
DeleteEntry(entryId, confirms) ==
    /\ LocalStorageBecomes(StoreEntries(LocalStorage,
           HistoryDeleteEntry(entriesItem, entryId, confirms, storeFull)))
    /\ last' = [HandlerRan("deleteEntry", <<>>, 0) EXCEPT
                   !.id = entryId, !.found = HasEntry(entryId),
                   !.confirms = confirms,
                   !.ret = IF build = "modular"
                           THEN confirms = 1 /\ ~storeFull
                           ELSE TRUE]
    /\ UNCHANGED <<clock, storeFull, offers, page, timers>>

\* HistoryManager.clearAllEntries (app.js) and window.clearAllHistory
\* (app-fixed.js)
ClearAllHistory(confirms) ==
    /\ LocalStorageBecomes(StoreEntries(LocalStorage,
           HistoryClearAll(entriesItem, confirms)))
    /\ last' = [HandlerRan("clearAllHistory", <<>>, 0) EXCEPT
                   !.confirms = confirms,
                   !.alert = IF confirms = 2 THEN "ALL_ENTRIES_DELETED" ELSE "none",
                   !.ret = IF build = "modular" THEN confirms = 2 ELSE TRUE]
    /\ UNCHANGED <<clock, storeFull, offers, page, timers>>

\* setTimeout(() => offerEmailBackup(formattedEntry), 1500) comes due
OfferEmailBackupFires(accepted) ==
    /\ [fn |-> "offerEmailBackup", streak |-> 0] \in timers
    /\ timers' = timers \ {[fn |-> "offerEmailBackup", streak |-> 0]}
    /\ IF BackupOfferShown(backupDeclinedItem, lastBackupOfferItem, Now)
       THEN /\ backupDeclinedItem' =
                   IF accepted THEN backupDeclinedItem
                   ELSE StorageSet(backupDeclinedItem, TRUE, storeFull)
            /\ lastBackupOfferItem' = StorageSet(lastBackupOfferItem, Now, storeFull)
            /\ offers' = [offers EXCEPT
                             !.declined = @ \/ ~accepted,
                             !.backupAt = Now,
                             !.lost = IF storeFull THEN @ \cup {"backup"} ELSE @]
       ELSE UNCHANGED <<backupDeclinedItem, lastBackupOfferItem, offers>>
    /\ last' = [NoLast EXCEPT
                   !.op = "offerEmailBackup",
                   !.ret = BackupOfferShown(backupDeclinedItem, lastBackupOfferItem,
                                            Now)]
    /\ UNCHANGED <<clock, storeFull, archive, ledger, recency,
                   streakEmailOfferedItem, page>>

\* the callback of StreakManager.celebrateStreak comes due
CelebrateFires(t) ==
    /\ t \in timers
    /\ t.fn = "celebrate"
    /\ timers' = (timers \ {t}) \cup
           (IF t.streak = STREAK_PROTECTION_MILESTONE
            THEN {[fn |-> "offerStreakProtection", streak |-> 0]}
            ELSE {})
    /\ last' = NoLast
    /\ UNCHANGED <<clock, storeFull, archive, ledger, recency, preferences, page>>

\* the callback of celebrateStreak of app-fixed.js comes due
CelebrateFixedFires(t) ==
    /\ t \in timers
    /\ t.fn = "celebrateFixed"
    /\ timers' = timers \ {t}
    /\ last' = NoLast
    /\ UNCHANGED <<clock, storeFull, archive, ledger, recency, preferences, page>>

\* setTimeout(() => this.offerStreakProtection(), 2000) comes due:
\* EmailManager.offerStreakProtection
OfferStreakProtectionFires ==
    /\ [fn |-> "offerStreakProtection", streak |-> 0] \in timers
    /\ timers' = timers \ {[fn |-> "offerStreakProtection", streak |-> 0]}
    /\ streakEmailOfferedItem' =
           IF StorageGet(streakEmailOfferedItem, FALSE)
           THEN streakEmailOfferedItem
           ELSE StorageSet(streakEmailOfferedItem, TRUE, storeFull)
    /\ offers' = IF StorageGet(streakEmailOfferedItem, FALSE) THEN offers
                 ELSE [offers EXCEPT
                          !.streak = IF @ < 2 THEN @ + 1 ELSE @,
                          !.lost = IF storeFull THEN @ \cup {"streak"} ELSE @]
    /\ last' = [NoLast EXCEPT !.op = "offerStreakProtection",
                              !.ret = ~StorageGet(streakEmailOfferedItem, FALSE)]
    /\ UNCHANGED <<clock, storeFull, archive, ledger, recency,
                   backupDeclinedItem, lastBackupOfferItem, page>>

\* what the user and the environment do
HandlerNext ==
    \/ TickMs
    \/ \E day \in (FirstDay + 1)..(FirstDay + MaxAppDays - 1) : NextDay(day)
    \/ QuotaChange
    \/ \E text \in Texts, downloaded \in BOOLEAN : SaveEntry(text, downloaded)
    \/ \E text \in Texts, copied \in BOOLEAN : CopyToClipboard(text, copied)
    \/ \E text \in Texts : FixedSaveEntry(text)
    \/ \E text \in Texts, copied \in BOOLEAN : FixedCopyToClipboard(text, copied)
    \/ \E entryId \in EntryIds, confirms \in 0..1 : DeleteEntry(entryId, confirms)
    \/ \E confirms \in 0..2 : ClearAllHistory(confirms)

\* the scheduled callbacks
CallbackNext ==
    \/ \E accepted \in BOOLEAN : OfferEmailBackupFires(accepted)
    \/ \E t \in timers : CelebrateFires(t)
    \/ \E t \in timers : CelebrateFixedFires(t)
    \/ OfferStreakProtectionFires

Next == HandlerNext \/ CallbackNext

Spec == AppInit /\ [][Next]_vars

\* The handlers alone.  The callbacks they schedule stay pending: a callback
\* reads and writes the preferences only, which no handler reads.
HandlerSpec == AppInit /\ [][HandlerNext]_vars

(***************************************************************************)
(* The prompts engine from page load on: the pool fetch returns, the user  *)
(* asks for a new prompt or sets the mode.                                 *)
(***************************************************************************)
\* the local hour and the day of the week (1 is Monday) at a selection
Hours == {8, 14, 20}

WeekDays == {1, 3}

\* the recency cache an earlier session left: it showed the career prompts
\* of the fallback pool but the last one
PriorRecent ==
    [i \in 1..(MAX_RECENT_PROMPTS - 1) |-> FALLBACK_career[MAX_RECENT_PROMPTS - i]]

\* the page is loaded: the prompts manager is constructed (app.js reads the
\* stored recency cache there, app-fixed.js in initApp) and the fetch is sent
PromptPage ==
    /\ nowDay = FirstDay
    /\ nowMs = 0
    /\ storeFull = FALSE
    /\ InitStore
    /\ streakItem = NoItem(defaultData)
    /\ build \in {"modular", "fixed"}
    /\ recentPromptsItem \in {NoItem(<<>>), [present |-> TRUE, value |-> PriorRecent]}
    /\ lastUsedPrompts =
           IF build = "modular" THEN StorageGet(recentPromptsItem, <<>>) ELSE <<>>
    /\ shown = StorageGet(recentPromptsItem, <<>>)
    /\ selections = 0
    /\ currentMode = "personal"
    /\ currentPrompt = MarkupPrompt
    /\ externalPrompts = Null
    /\ promptsLoaded = FALSE
    /\ initialized = FALSE
    /\ startup = "fetching"
    /\ WrapperInit
    /\ TimerInit

PromptInit ==
    /\ PromptPage
    /\ boot = Booting

CurrentPage ==
    [mode |-> currentMode, prompt |-> currentPrompt, lastUsed |-> lastUsedPrompts,
     item |-> recentPromptsItem, shown |-> shown, selections |-> selections,
     returned |-> <<>>]

Shows(st) ==
    /\ currentMode' = st.mode
    /\ currentPrompt' = st.prompt
    /\ lastUsedPrompts' = st.lastUsed
    /\ recentPromptsItem' = st.item
    /\ shown' = st.shown
    /\ selections' = st.selections
    /\ st.selections <= MaxSelections

PromptRan(op, st) ==
    [NoLast EXCEPT !.op = op, !.ok = ~storeFull, !.returned = st.returned]

\* newPrompt / window.newPrompt
NewPrompt(hour, day, random) ==
    LET st == Display(CurrentPage, promptsLoaded, externalPrompts, hour, day,
                      random, storeFull)
    IN  /\ Shows(st)
        /\ last' = PromptRan("newPrompt", st)
        /\ UNCHANGED <<clock, storeFull, archive, ledger, preferences, build,
                       externalPrompts, promptsLoaded, initialized, startup,
                       boot, wrapper, countdown, timers>>

\* setMode / window.setMode
SetMode(mode, hour, day, random) ==
    LET st == Display([CurrentPage EXCEPT
                          !.mode = IF mode = "career" THEN "professional"
                                   ELSE "personal"],
                      promptsLoaded, externalPrompts, hour, day, random, storeFull)
    IN  /\ Shows(st)
        /\ last' = PromptRan("setMode", st)
        /\ UNCHANGED <<clock, storeFull, archive, ledger, preferences, build,
                       externalPrompts, promptsLoaded, initialized, startup,
                       boot, wrapper, countdown, timers>>

\* App.initialize from "await initializePrompts()" on, once the fetch has
\* returned: loadExternalPrompts, displayPrompt, setMode('personal')
ModularStartupPage(result, hour, day, random1, random2) ==
    LET loading == loadExternalPrompts(result, "modular")
        st1 == Display(CurrentPage, loading.loaded, loading.external, hour, day,
                       random1, storeFull)
    IN  Display([st1 EXCEPT !.mode = "personal"], loading.loaded,
                loading.external, hour, day, random2, storeFull)

ModularStartupEnds(phase, result, hour, day, random1, random2) ==
    LET loading == loadExternalPrompts(result, "modular")
        st2 == ModularStartupPage(result, hour, day, random1, random2)
    IN  /\ build = "modular"
        /\ startup = phase
        /\ startup' = "returned"
        /\ externalPrompts' = loading.external
        /\ promptsLoaded' = loading.loaded
        /\ IF loading.threw
           THEN /\ initialized' = FALSE
                /\ last' = [PromptRan("startup", CurrentPage) EXCEPT
                               !.fetched = result, !.ret = FALSE]
                /\ UNCHANGED <<currentMode, currentPrompt, lastUsedPrompts,
                               recentPromptsItem, shown, selections>>
           ELSE /\ initialized' = TRUE
                /\ Shows(st2)
                /\ last' = [PromptRan("startup", st2) EXCEPT
                               !.fetched = result]
        /\ UNCHANGED <<clock, storeFull, archive, ledger, preferences, build,
                       wrapper, countdown,
                       timers>>

\* initApp of app-fixed.js from "await loadExternalPrompts()" on:
\* loadRecentPrompts, initSmartToggle (which sets the mode), displaySmartPrompt
FixedStartupPage(result, hour, day, random1, random2) ==
    LET loading == loadExternalPrompts(result, "fixed")
        st1 == Display([CurrentPage EXCEPT
                           !.lastUsed = StorageGet(recentPromptsItem, <<>>),
                           !.mode = "personal"],
                       loading.loaded, loading.external, hour, day, random1, storeFull)
    IN  Display(st1, loading.loaded, loading.external, hour, day, random2, storeFull)

FixedStartupEnds(phase, result, hour, day, random1, random2) ==
    LET loading == loadExternalPrompts(result, "fixed")
        st == FixedStartupPage(result, hour, day, random1, random2)
    IN  /\ build = "fixed"
        /\ startup = phase
        /\ startup' = "returned"
        /\ externalPrompts' = loading.external
        /\ promptsLoaded' = loading.loaded
        /\ initialized' = TRUE
        /\ Shows(st)
        /\ last' = [PromptRan("startup", st) EXCEPT !.fetched = result]
        /\ UNCHANGED <<clock, storeFull, archive, ledger, preferences, build,
                       wrapper, countdown,
                       timers>>

\* the fetch and the reading of the body taken as one step
InitializeReturns(result, hour, day, random1, random2) ==
    /\ ModularStartupEnds("fetching", result, hour, day, random1, random2)
    /\ UNCHANGED boot

FixedInitReturns(result, hour, day, random1, random2) ==
    /\ FixedStartupEnds("fetching", result, hour, day, random1, random2)
    /\ UNCHANGED boot

PromptNext ==
    \/ \E result \in FetchResults, hour \in Hours, day \in WeekDays,
          random1 \in Randoms, random2 \in Randoms :
          InitializeReturns(result, hour, day, random1, random2)
    \/ \E result \in FetchResults, hour \in Hours, day \in WeekDays,
          random1 \in Randoms, random2 \in Randoms :
          FixedInitReturns(result, hour, day, random1, random2)
    \/ \E hour \in Hours, day \in WeekDays, random \in Randoms :
          NewPrompt(hour, day, random)
    \/ \E mode \in {"personal", "career"}, hour \in Hours, day \in WeekDays,
          random \in Randoms :
          SetMode(mode, hour, day, random)
    \/ QuotaChange

PromptSpec == PromptInit /\ [][PromptNext]_vars

(***************************************************************************)
(* The pool fetch await by await: fetch() settles when the headers arrive  *)
(* and the abort timer is cleared, response.json() settles when the body   *)
(* has arrived, and loadExternalPrompts returns to startup, which goes on  *)
(* before any other event is handled.  The network may answer at any time  *)
(* or never; the abort timer, while it is set, comes due.                  *)
(***************************************************************************)
\* fetch() resolves with a 2xx response; clearTimeout(timeoutId)
HeadersArrive ==
    /\ startup = "fetching"
    /\ startup' = "reading"
    /\ last' = [NoLast EXCEPT !.op = "headers"]
    /\ UNCHANGED <<clock, storeFull, archive, ledger, recency, preferences, build,
                   currentMode, currentPrompt, externalPrompts, promptsLoaded,
                   lastUsedPrompts, initialized, shown, selections, boot, wrapper,
                   countdown, timers>>

\* loadExternalPrompts runs to its end with what the fetch came back with
LoadSettles(phase, result) ==
    /\ startup = phase
    /\ startup' = "loaded"
    /\ externalPrompts' = loadExternalPrompts(result, build).external
    /\ promptsLoaded' = loadExternalPrompts(result, build).loaded
    /\ last' = [NoLast EXCEPT !.op = "loadExternalPrompts", !.fetched = result]
    /\ UNCHANGED <<clock, storeFull, archive, ledger, recency, preferences, build,
                   currentMode, currentPrompt, lastUsedPrompts, initialized, shown,
                   selections, boot, wrapper, countdown, timers>>

\* fetch() resolves with a response that is not ok, or rejects
FetchFails == LoadSettles("fetching", Fetched("http 404", FALSE, FALLBACK_PROMPTS))

\* setTimeout(() => controller.abort(), PROMPTS_TIMEOUT) comes due while
\* fetch() is pending, and fetch() rejects
AbortFires == LoadSettles("fetching", Fetched("timeout", FALSE, FALLBACK_PROMPTS))

\* response.json() resolves
BodyArrives(result) ==
    /\ result.status = "ok"
    /\ LoadSettles("reading", result)

\* App.initialize / initApp go on behind the await
StartupContinues(hour, day, random1, random2) ==
    /\ \/ ModularStartupEnds("loaded", last.fetched, hour, day, random1, random2)
       \/ FixedStartupEnds("loaded", last.fetched, hour, day, random1, random2)
    /\ UNCHANGED boot

LoadNext ==
    \/ HeadersArrive
    \/ FetchFails
    \/ AbortFires
    \/ \E result \in FetchResults : BodyArrives(result)
    \/ \E hour \in Hours, day \in WeekDays, random1 \in Randoms, random2 \in Randoms :
          StartupContinues(hour, day, random1, random2)
    \/ \E hour \in Hours, day \in WeekDays, random \in Randoms :
          startup # "loaded" /\ NewPrompt(hour, day, random)
    \/ startup # "loaded" /\ QuotaChange

\* the abort timer is set while fetch() is pending and comes due; nothing
\* makes the headers or the body arrive
LoadSpec ==
    /\ PromptInit
    /\ [][LoadNext]_vars
    /\ WF_vars(AbortFires)

(***************************************************************************)
(* The storage wrapper on one key: values are set, read back and removed,  *)
(* the store fills up, and other code of the page writes the key's text.   *)
(***************************************************************************)
Numbers == 0..MaxNumber

Alphabet == {"a", "0", Quote, Backslash}

Strings == UNION {[1..k -> Alphabet] : k \in 0..MaxStringLen}

\* the values handed to set
Values ==
    {JSBool(FALSE), JSBool(TRUE), JSNull, JSArray, JSUndefined, JSNaN}
        \cup {JSNum(n) : n \in Numbers} \cup {JSStr(s) : s \in Strings}

\* the defaults handed to get
Defaults == {JSNull, JSNum(1), JSStr(<<"d">>)}

\* the texts other code leaves under the key
RawTexts == UNION {[1..k -> {"{", "0", "x", Quote}] : k \in 0..MaxStringLen}

WrapperSet(value) ==
    LET r == StorageManager_set(rawItem, value, storeFull)
    IN  /\ rawItem' = r.item
        /\ stored' = IF r.ret THEN [valid |-> TRUE, value |-> value] ELSE stored
        /\ last' = [NoLast EXCEPT !.op = "set", !.ok = r.ret, !.ret = r.ret,
                                  !.given = value, !.raised = r.threw]
        /\ UNCHANGED <<clock, storeFull, archive, ledger, recency, preferences,
                       build, currentMode, currentPrompt, engine, countdown, timers>>

WrapperGet(defaultValue, available) ==
    LET r == StorageManager_get(rawItem, defaultValue, available)
    IN  /\ last' = [NoLast EXCEPT !.op = "get", !.available = available,
                                  !.given = defaultValue, !.got = r.value,
                                  !.raised = r.threw]
        /\ UNCHANGED <<clock, storeFull, archive, ledger, recency, preferences,
                       page, timers>>

\* StorageManager.remove(key)
WrapperRemove ==
    /\ rawItem' = NoText
    /\ stored' = [valid |-> FALSE, value |-> JSNull]
    /\ last' = [NoLast EXCEPT !.op = "remove"]
    /\ UNCHANGED <<clock, storeFull, archive, ledger, recency, preferences,
                   build, currentMode, currentPrompt, engine, countdown, timers>>

\* localStorage.setItem(key, text) by code that does not go through the wrapper
RawWrite(text) ==
    /\ ~storeFull
    /\ rawItem' = [present |-> TRUE, text |-> text]
    /\ stored' = [valid |-> FALSE, value |-> JSNull]
    /\ last' = [NoLast EXCEPT !.op = "rawWrite"]
    /\ UNCHANGED <<clock, storeFull, archive, ledger, recency, preferences,
                   build, currentMode, currentPrompt, engine, countdown, timers>>

WrapperNext ==
    \/ \E value \in Values : WrapperSet(value)
    \/ \E defaultValue \in Defaults, available \in BOOLEAN :
          WrapperGet(defaultValue, available)
    \/ WrapperRemove
    \/ \E text \in RawTexts : RawWrite(text)
    \/ QuotaChange

WrapperSpec == LedgerInit /\ [][WrapperNext]_vars

(***************************************************************************)
(* The stores driven directly: EntriesStorage.saveEntry, addWritingDay for *)
(* today, trackUsedPrompt and StorageManager.set, on a store that fills up *)
(* and is freed.                                                           *)
(***************************************************************************)
\* EntriesStorage.saveEntry(prompt, text, wordCount, mode)
StoreEntry(text) ==
    /\ Len(getEntries(entriesItem)) < MaxEntries
    /\ entriesItem' = EntriesStorage_saveEntry(entriesItem, currentPrompt, text,
                                               TextFacts[text].words, currentMode,
                                               Now, storeFull)
    /\ last' = [NoLast EXCEPT !.op = "EntriesStorage.saveEntry",
                              !.writes = {"writingEntries"},
                              !.ok = ~storeFull,
                              !.raised = StorageSetRaises(storeFull),
                              !.length = Len(text)]
    /\ UNCHANGED <<clock, storeFull, ledger, recency, preferences, page, timers>>

\* PromptsManager.trackUsedPrompt(prompt) / trackUsedPrompt(prompt)
TrackPrompt(prompt) ==
    /\ selections < MaxSelections
    /\ lastUsedPrompts' = trackUsedPrompt(lastUsedPrompts, prompt)
    /\ recentPromptsItem' = StorageSet(recentPromptsItem,
                                       trackUsedPrompt(lastUsedPrompts, prompt),
                                       storeFull)
    /\ shown' = Remember(shown, prompt)
    /\ selections' = selections + 1
    /\ last' = [NoLast EXCEPT !.op = "trackUsedPrompt",
                              !.writes = {"recentPrompts"},
                              !.ok = ~storeFull,
                              !.raised = StorageSetRaises(storeFull)]
    /\ UNCHANGED <<clock, storeFull, archive, ledger, preferences, build,
                   currentMode, currentPrompt, externalPrompts, promptsLoaded,
                   initialized, startup, boot, wrapper, countdown, timers>>

PersistNext ==
    \/ \E text \in {t \in Texts : TextFacts[t].trimmedLength > 0} : StoreEntry(text)
    \/ AddWritingDay(Today)
    \/ \E prompt \in {FALLBACK_life[1], FALLBACK_life[2]} : TrackPrompt(prompt)
    \/ \E value \in {JSBool(TRUE), JSNull} : WrapperSet(value)
    \/ QuotaChange

PersistSpec == AppInit /\ [][PersistNext]_vars

(***************************************************************************)
(* The timer driven by its methods and by the browser, which runs the      *)
(* callback of any interval that is set.                                   *)
(***************************************************************************)
\* the timer and the browser after a call that left tm; stops says that
\* pause, complete or cleanup ran, and starts that start did
TimerRan(op, tm, stops, starts) ==
    /\ timeLeft' = tm.timeLeft
    /\ interval' = tm.interval
    /\ isRunning' = tm.isRunning
    /\ onUpdate' = tm.onUpdate
    /\ onComplete' = tm.onComplete
    /\ liveIntervals' = tm.live
    /\ issued' = tm.issued
    /\ cancelled' = IF stops THEN TRUE ELSE IF starts THEN FALSE ELSE cancelled
    /\ timers' = IF tm.alert THEN timers \cup {[fn |-> "alertTimerComplete", streak |-> 0]}
                 ELSE timers
    /\ last' = [NoLast EXCEPT !.op = op, !.ret = tm.ret, !.left = tm.timeLeft,
                              !.invoked = tm.invoked, !.exposed = tm.exposed]
    /\ UNCHANGED <<clock, storeFull, archive, ledger, recency, preferences,
                   build, currentMode, currentPrompt, engine, wrapper>>

TimerStart ==
    /\ issued < MaxIntervals
    /\ TimerRan("start", Timer_start(TimerObject), FALSE, TRUE)
    /\ UNCHANGED <<pendingChecks, pendingStarts>>

TimerPause ==
    /\ TimerRan("pause", Timer_pause(TimerObject), TRUE, FALSE)
    /\ UNCHANGED <<pendingChecks, pendingStarts>>

TimerReset ==
    /\ TimerRan("reset", Timer_reset(TimerObject), TRUE, FALSE)
    /\ UNCHANGED <<pendingChecks, pendingStarts>>

\* finishTimer: complete() called from outside the tick
TimerComplete ==
    /\ TimerRan("complete", Timer_complete(TimerObject), TRUE, FALSE)
    /\ UNCHANGED <<pendingChecks, pendingStarts>>

TimerCleanup ==
    /\ TimerRan("cleanup", Timer_cleanup(TimerObject), TRUE, FALSE)
    /\ UNCHANGED <<pendingChecks, pendingStarts>>

\* setUpdateCallback / setCompleteCallback
SetUpdateCallback ==
    /\ TimerRan("setUpdateCallback", [TimerObject EXCEPT !.onUpdate = TRUE],
                FALSE, FALSE)
    /\ UNCHANGED <<pendingChecks, pendingStarts>>

SetCompleteCallback ==
    /\ TimerRan("setCompleteCallback", [TimerObject EXCEPT !.onComplete = TRUE],
                FALSE, FALSE)
    /\ UNCHANGED <<pendingChecks, pendingStarts>>

\* a second passes on the interval id, which is set
Tick(id) ==
    /\ id \in liveIntervals
    /\ TimerRan("tick", Timer_tick(TimerObject),
                Timer_tick(TimerObject).timeLeft = 0, FALSE)
    /\ UNCHANGED <<pendingChecks, pendingStarts>>

TimerNext ==
    \/ TimerStart
    \/ TimerPause
    \/ TimerReset
    \/ TimerComplete
    \/ TimerCleanup
    \/ SetUpdateCallback
    \/ SetCompleteCallback
    \/ \E id \in liveIntervals : Tick(id)

TimerSpec == LedgerInit /\ [][TimerNext]_vars

(***************************************************************************)
(* The timer started from the writing area.  An input event asks           *)
(* shouldAutoStartTimer, whose answer comes behind a dynamic import, and a *)
(* yes calls startTimer behind another one; start, pause, reset and the    *)
(* ticks go on meanwhile.                                                  *)
(***************************************************************************)
\* the input listener of setupAutoStartTimer; the text is read at once, and
\* a check on a blank text cannot pass
InputEvent(text) ==
    /\ pendingChecks + pendingStarts < MaxPending
    /\ pendingChecks' = IF TextFacts[text].trimmedLength > 0
                        THEN pendingChecks + 1 ELSE pendingChecks
    /\ last' = [NoLast EXCEPT !.op = "input", !.length = Len(text)]
    /\ UNCHANGED <<clock, storeFull, archive, ledger, recency, preferences,
                   build, currentMode, currentPrompt, engine, wrapper, timeLeft,
                   interval, isRunning, onUpdate, onComplete, liveIntervals,
                   issued, cancelled, pendingStarts, timers>>

\* shouldAutoStartTimer's then-callback reads the timer's state
CheckRuns ==
    /\ pendingChecks > 0
    /\ pendingChecks' = pendingChecks - 1
    /\ pendingStarts' = IF ~isRunning /\ timeLeft = TIMER_DURATION
                        THEN pendingStarts + 1 ELSE pendingStarts
    /\ last' = [NoLast EXCEPT !.op = "shouldAutoStartTimer",
                              !.ret = (~isRunning /\ timeLeft = TIMER_DURATION)]
    /\ UNCHANGED <<clock, storeFull, archive, ledger, recency, preferences,
                   build, currentMode, currentPrompt, engine, wrapper, timeLeft,
                   interval, isRunning, onUpdate, onComplete, liveIntervals,
                   issued, cancelled, timers>>

\* the listener's startTimer()
AutoStartRuns ==
    /\ pendingStarts > 0
    /\ issued < MaxIntervals
    /\ pendingStarts' = pendingStarts - 1
    /\ pendingChecks' = pendingChecks
    /\ TimerRan("autoStart", Timer_start(TimerObject), FALSE, TRUE)

AutoStartNext ==
    \/ \E text \in Texts : InputEvent(text)
    \/ CheckRuns
    \/ AutoStartRuns
    \/ TimerStart
    \/ TimerPause
    \/ TimerReset
    \/ \E id \in liveIntervals : Tick(id)

AutoStartSpec == LedgerInit /\ [][AutoStartNext]_vars

(***************************************************************************)
(* getTimeCategory called at any local hour of any day of the week         *)
(* (getDay: 0 is Sunday).                                                  *)
(***************************************************************************)
ClockHours == 0..23

ClockDays == 0..6

GetTimeCategory(hour, day) ==
    /\ last' = [NoLast EXCEPT !.op = "getTimeCategory", !.hour = hour, !.day = day,
                              !.category = getTimeCategory(hour, day)]
    /\ UNCHANGED <<clock, storeFull, archive, ledger, recency, preferences, page,
                   timers>>

CategoryNext == \E hour \in ClockHours, day \in ClockDays : GetTimeCategory(hour, day)

CategorySpec == LedgerInit /\ [][CategoryNext]_vars

(***************************************************************************)
(* The ledger as the properties read it.                                   *)
(***************************************************************************)
Ledger == getStreakData(streakItem)

WritingDaysSet == {Ledger.writingDays[i] : i \in 1..Len(Ledger.writingDays)}

\* the number of dates of days that end at date, each one calendar day after
\* the one before
RunEndingAt(days, date) ==
    CHOOSE k \in 1..(Cardinality(days) + 1) :
        /\ \A j \in 0..(k - 1) : CivilFromDays(DaysFromCivil(date) - j) \in days
        /\ CivilFromDays(DaysFromCivil(date) - k) \notin days

Inserted == last.op = "addWritingDay" /\ ~last.had /\ last.ok

\* C1: after a call of addWritingDay that inserts a new date, currentStreak is
\* the length of the run of consecutive calendar dates of writingDays that
\* ends at the date just inserted.
C1_StreakEndsAtInsertedDate ==
    Inserted => Ledger.currentStreak = RunEndingAt(WritingDaysSet, last.date)

NoDuplicateDays ==
    \A i, j \in 1..Len(Ledger.writingDays) :
        i # j => Ledger.writingDays[i] # Ledger.writingDays[j]

\* C2: addWritingDay with a date already in writingDays leaves the stored
\* ledger as it is and writes nothing to the store, and writingDays never
\* holds a date twice.
C2_SameDateIsNoOp ==
    /\ []NoDuplicateDays
    /\ [][(last'.op = "addWritingDay" /\ last'.had)
            => (streakItem' = streakItem /\ last'.writes = {})]_vars

C2_Witness ==
    /\ last.op = "addWritingDay"
    /\ last.had
    /\ last.date \in WritingDaysSet
    /\ Len(Ledger.writingDays) >= 2

\* C3: the stored longestStreak never decreases from one state to the next.
C3_LongestNeverDecreases ==
    [][getStreakData(streakItem').longestStreak
         >= getStreakData(streakItem).longestStreak]_vars

C3_Witness ==
    /\ Inserted
    /\ Ledger.currentStreak = 1
    /\ Ledger.longestStreak >= 3

\* C4: in every reachable state longestStreak >= currentStreak >= 0 and
\* longestStreak >= 0.
C4_LongestAtLeastCurrent ==
    /\ Ledger.longestStreak >= Ledger.currentStreak
    /\ Ledger.currentStreak >= 0
    /\ Ledger.longestStreak >= 0

C4_Witness ==
    /\ Inserted
    /\ Ledger.currentStreak >= 2
    /\ Ledger.longestStreak > Ledger.currentStreak

(***************************************************************************)
(* Save, copy, delete and clear, as the properties read them.              *)
(***************************************************************************)
Entries == getEntries(entriesItem)

SaveOps == {"saveEntry", "copyToClipboard"}

\* C5: as the specification words it, a save or copy of a non-empty text
\* always adds the entry to the archive, whatever its word count (stated for
\* a store that accepts the write).
C5_SaveAlwaysArchives ==
    [][(last'.op \in SaveOps /\ ~last'.blank /\ last'.ok)
          => Len(getEntries(entriesItem')) = Len(getEntries(entriesItem)) + 1]_vars

\* C5: a save or copy of a non-empty text puts the entry at the head of the
\* archive exactly when the text has at least MIN_WORDS_FOR_STREAK words and
\* the store accepts the write; a shorter text (24 words) leaves the archive
\* and the streak ledger as they were.
C5_ArchivesQualifyingOnly ==
    [][(last'.op \in SaveOps /\ ~last'.blank)
          => IF last'.words >= MIN_WORDS_FOR_STREAK /\ last'.ok
             THEN /\ getEntries(entriesItem') # <<>>
                  /\ Tail(getEntries(entriesItem')) = getEntries(entriesItem)
                  /\ Head(getEntries(entriesItem')).wordCount = last'.words
                  /\ Head(getEntries(entriesItem')).date = <<nowDay, nowMs>>
             ELSE /\ getEntries(entriesItem') = getEntries(entriesItem)
                  /\ last'.words < MIN_WORDS_FOR_STREAK => streakItem' = streakItem]_vars

\* a 24-word text was saved after a qualifying one: the archive holds the
\* qualifying entry only
C5_Witness ==
    /\ last.op = "saveEntry"
    /\ ~last.blank
    /\ last.words = MIN_WORDS_FOR_STREAK - 1
    /\ last.ok
    /\ Len(Entries) = 1
    /\ Entries[1].wordCount = MIN_WORDS_FOR_STREAK

\* C6: a qualifying save or copy on a date the ledger already holds leaves
\* the ledger as it was, so of two qualifying saves on one date only the
\* first updates it (the first records the date whenever the store accepts
\* its write); a save of fewer than 25 words never changes the ledger.
C6_LedgerUpdatedOncePerDate ==
    [][(last'.op \in SaveOps)
          => /\ last'.words < MIN_WORDS_FOR_STREAK => streakItem' = streakItem
             /\ last'.had => streakItem' = streakItem
             /\ (last'.words >= MIN_WORDS_FOR_STREAK /\ last'.ok)
                   => Includes(getStreakData(streakItem').writingDays, last'.date)
             /\ (/\ last.op \in SaveOps
                 /\ last.words >= MIN_WORDS_FOR_STREAK
                 /\ last.ok
                 /\ last.date = last'.date
                 /\ last'.words >= MIN_WORDS_FOR_STREAK)
                   => streakItem' = streakItem]_vars

\* the second qualifying save of a date has run: two entries, one ledger day
C6_Witness ==
    /\ last.op = "saveEntry"
    /\ last.words >= MIN_WORDS_FOR_STREAK
    /\ last.had
    /\ Len(Entries) = 2
    /\ Entries[1].date[1] = Entries[2].date[1]
    /\ Includes(Ledger.writingDays, last.date)

\* C7: a save or copy of an empty or whitespace-only text shows the notice
\* of its handler and leaves the archive, the ledger, the recency cache and
\* the preferences as they were; it schedules nothing.
C7_BlankInputAborts ==
    [][(last'.op \in SaveOps /\ last'.blank)
          => /\ last'.alert = IF last'.op = "saveEntry"
                              THEN "NO_TEXT_DOWNLOAD"
                              ELSE "NO_TEXT_COPY"
             /\ UNCHANGED <<archive, ledger, recency, preferences, timers>>]_vars

\* a copy of a whitespace-only text was refused on a page with history
C7_Witness ==
    /\ last.op = "copyToClipboard"
    /\ last.blank
    /\ last.length > 0
    /\ last.alert = "NO_TEXT_COPY"
    /\ Len(Entries) >= 1

\* C8: deleteEntry with an id no archived entry carries leaves the sequence
\* of archived entries as it was and shows no notice.
C8_DeleteMissingIdIsNoOp ==
    [][(last'.op = "deleteEntry" /\ ~last'.found)
          => /\ getEntries(entriesItem') = getEntries(entriesItem)
             /\ last'.alert = "none"]_vars

\* a confirmed delete of an unknown id has run on a non-empty archive
C8_Witness ==
    /\ last.op = "deleteEntry"
    /\ ~last.found
    /\ last.id = NoSuchId
    /\ last.confirms = 1
    /\ last.ok
    /\ Len(Entries) >= 1

\* C9: a delete-one that was not confirmed, and a clear-all that was not
\* confirmed twice, leave the stored archive as it was.
C9_NoMutationWithoutConfirmation ==
    [][(\/ last'.op = "deleteEntry" /\ last'.confirms < 1
        \/ last'.op = "clearAllHistory" /\ last'.confirms < 2)
          => entriesItem' = entriesItem]_vars

\* a clear-all was confirmed once and declined at the second dialog
C9_Witness ==
    /\ last.op = "clearAllHistory"
    /\ last.confirms = 1
    /\ Len(Entries) >= 1

\* C10: any two distinct entries of the archive have different ids.
C10_UniqueIds ==
    \A i, j \in 1..Len(Entries) : i # j => Entries[i].id # Entries[j].id

\* C11: every archived entry has the mode "personal" or "professional".
C11_ModeIsPersonalOrProfessional ==
    \A i \in 1..Len(Entries) : Entries[i].mode \in {"personal", "professional"}

(***************************************************************************)
(* The prompts engine as the properties read it.                           *)
(***************************************************************************)
Range(seq) == {seq[i] : i \in 1..Len(seq)}

\* the recency list the selections of a step start from: initApp of
\* app-fixed.js reads the stored list first, every other step uses the
\* prompts manager's copy
CacheBefore ==
    IF last'.op = "startup" /\ build = "fixed"
    THEN StorageGet(recentPromptsItem, <<>>)
    ELSE lastUsedPrompts

PrependTruncate(cache, prompt) ==
    SubSeq(<<prompt>> \o cache, 1,
           IF Len(cache) + 1 > MAX_RECENT_PROMPTS THEN MAX_RECENT_PROMPTS
           ELSE Len(cache) + 1)

\* the recency list before the i-th selection of a step
RECURSIVE CacheAt(_, _, _)
CacheAt(cache, returned, i) ==
    IF i = 1 THEN cache
    ELSE PrependTruncate(CacheAt(cache, returned, i - 1), returned[i - 1].prompt)

\* the last distinct prompts shown before the i-th selection of a step
RECURSIVE ShownAt(_, _, _)
ShownAt(distinct, returned, i) ==
    IF i = 1 THEN distinct
    ELSE Remember(ShownAt(distinct, returned, i - 1), returned[i - 1].prompt)

\* the step selected prompts (rather than showing the loading text)
Selected(l) == l.returned # <<>> /\ \A i \in 1..Len(l.returned) : l.returned[i].tracked

\* C12: whatever generateSmartPrompt returns is a non-empty string, and so
\* is the prompt on display.
C12_PromptNeverEmpty ==
    /\ \A i \in 1..Len(last.returned) : last.returned[i].prompt \notin {"", Undefined}
    /\ currentPrompt \notin {"", Undefined}

\* a pool whose life list is empty was accepted and a personal prompt was
\* selected from no candidates at all
C12_Witness ==
    /\ externalPrompts = External(EmptyLifePool)
    /\ Selected(last)
    /\ last.returned[Len(last.returned)].mode = "personal"
    /\ last.returned[Len(last.returned)].candidates = <<>>
    /\ currentPrompt \in Range(FALLBACK_life)

\* C13: as the specification words it, a selected prompt is none of the last
\* MAX_RECENT_PROMPTS distinct prompts shown unless the assembled candidates
\* hold fewer than MAX_RECENT_PROMPTS distinct prompts.
C13_NoRecentRepeat ==
    [][Selected(last')
          => \A i \in 1..Len(last'.returned) :
                 Cardinality(Range(last'.returned[i].candidates)) >= MAX_RECENT_PROMPTS
                     => ~Includes(ShownAt(shown, last'.returned, i),
                                  last'.returned[i].prompt)]_vars

\* C13: a selected prompt is none of the prompts in the recency list unless
\* every assembled candidate is in that list, which takes candidates of at
\* most MAX_RECENT_PROMPTS distinct prompts; then the prompt is drawn from
\* the unfiltered candidates (from the fallback list of the mode when there
\* are none).
C13_NoRepeatWhileFresh ==
    [][Selected(last')
          => \A i \in 1..Len(last'.returned) :
                 LET cache      == CacheAt(CacheBefore, last'.returned, i)
                     candidates == last'.returned[i].candidates
                     prompt     == last'.returned[i].prompt
                 IN  /\ Includes(cache, prompt)
                         => /\ Range(candidates) \subseteq Range(cache)
                            /\ Cardinality(Range(candidates)) <= MAX_RECENT_PROMPTS
                     /\ candidates # <<>> => prompt \in Range(candidates)]_vars

\* all ten career prompts of the fallback pool were in the list and one of
\* them was selected again
C13_Witness ==
    /\ last.op = "newPrompt"
    /\ Selected(last)
    /\ last.returned[1].mode = "professional"
    /\ Cardinality(Range(last.returned[1].candidates)) = MAX_RECENT_PROMPTS
    /\ Includes(Tail(lastUsedPrompts), last.returned[1].prompt)

\* C14: a step that selects prompts leaves the recency list equal to the
\* prompts prepended one by one to the list before, each time cut to the
\* first MAX_RECENT_PROMPTS, and the stored list equal to it when the store
\* accepts the write; the list never has more than MAX_RECENT_PROMPTS
\* elements and its head is the prompt returned last, which is on display.
C14_RecencyPrependTruncate ==
    /\ [][Selected(last')
             => /\ lastUsedPrompts' =
                       CacheAt(CacheBefore, last'.returned, Len(last'.returned) + 1)
                /\ last'.ok => StorageGet(recentPromptsItem', <<>>) = lastUsedPrompts']_vars
    /\ [](/\ Len(lastUsedPrompts) <= MAX_RECENT_PROMPTS
          /\ Len(StorageGet(recentPromptsItem, <<>>)) <= MAX_RECENT_PROMPTS)
    /\ [](Selected(last)
             => /\ Head(lastUsedPrompts) = last.returned[Len(last.returned)].prompt
                /\ Head(lastUsedPrompts) = currentPrompt)

\* the list was full and a selection pushed its oldest prompt out
C14_Witness ==
    /\ Selected(last)
    /\ selections >= 2
    /\ Len(lastUsedPrompts) = MAX_RECENT_PROMPTS
    /\ ~Includes(lastUsedPrompts, PriorRecent[MAX_RECENT_PROMPTS - 1])
    /\ StorageGet(recentPromptsItem, <<>>) = lastUsedPrompts

\* C15: when the fetch of the pool fails, startup ends with the fallback
\* pool in place, the application initialized and a prompt of the fallback
\* pool on display.
C15_FailedFetchFallsBack ==
    (last.op = "startup" /\ ~ValidStructure(last.fetched))
        => /\ externalPrompts = External(FALLBACK_PROMPTS)
           /\ promptsLoaded
           /\ initialized
           /\ currentPrompt \in Range(FALLBACK_life) \cup Range(FALLBACK_career)

\* both mode categories are present and non-empty
BothCategoriesFilled(result) ==
    /\ result.status = "ok"
    /\ result.hasPrompts
    /\ result.prompts.life.defined /\ result.prompts.life.list # <<>>
    /\ result.prompts.career.defined /\ result.prompts.career.list # <<>>

\* C16: startup keeps the fetched pool only if both mode categories are
\* present and non-empty, and puts the fallback pool in its place otherwise.
C16_PoolAcceptedOnlyIfFilled ==
    last.op = "startup"
        => externalPrompts = IF BothCategoriesFilled(last.fetched)
                             THEN External(last.fetched.prompts)
                             ELSE External(FALLBACK_PROMPTS)

(***************************************************************************)
(* The storage wrapper's contract.                                         *)
(***************************************************************************)
\* the values JSON can write
Storable(value) == value.type \in {"boolean", "number", "string", "null", "array"}

\* C17: StorageManager.get never raises; it returns the value the latest
\* successful set stored under the key, for every storable value (false, 0,
\* the empty string and null included), and returns the default when the
\* key is absent, the store is unavailable or the stored text does not decode
C17_GetReturnsStoredOrDefault ==
    last.op = "get" =>
        /\ ~last.raised
        /\ (last.available /\ stored.valid /\ Storable(stored.value))
               => last.got = stored.value
        /\ (\/ ~last.available
            \/ ~rawItem.present
            \/ JSON_parse(rawItem.text).threw)
               => last.got = last.given

\* a falsy value was stored and get, given another default, returned it
C17_Witness ==
    /\ last.op = "get"
    /\ last.available
    /\ stored.valid
    /\ stored.value \in {JSBool(FALSE), JSNum(0), JSStr(<<>>), JSNull}
    /\ last.given # stored.value
    /\ last.got = stored.value

\* the operations that write through StorageManager.set
WriteOps == {"set", "EntriesStorage.saveEntry", "addWritingDay", "trackUsedPrompt"}

\* the step is a write of one of them that the store rejected
FailedWrite ==
    /\ last' # last
    /\ last'.op \in WriteOps
    /\ last'.op # "set" => last'.writes # {}
    /\ ~last'.ok

\* C18: a write that the store rejects raises nothing (StorageManager.set
\* returns false) and leaves what is stored as it was: after a failed write
\* inside saveEntry, addWritingDay or trackUsedPrompt the stored archive,
\* ledger and recency list are what they were before the operation
C18_FailedWriteKeepsStore ==
    [][FailedWrite =>
          /\ ~last'.raised
          /\ last'.op = "set" => ~last'.ret
          /\ entriesItem' = entriesItem
          /\ streakItem' = streakItem
          /\ recentPromptsItem' = recentPromptsItem
          /\ rawItem' = rawItem]_vars

\* a write was rejected on a store that already holds an archive, a ledger
\* and a recency list
C18_Witness ==
    /\ last.op \in WriteOps \ {"set"}
    /\ last.writes # {}
    /\ ~last.ok
    /\ Len(getEntries(entriesItem)) > 0
    /\ Len(getStreakData(streakItem).writingDays) > 0
    /\ Len(StorageGet(recentPromptsItem, <<>>)) > 0

(***************************************************************************)
(* The timer's cancellation.                                               *)
(***************************************************************************)
\* the step is a tick: the interval's callback ran
TickFired == last' # last /\ last'.op = "tick"

\* C19: no tick fires after cancellation: once pause, complete or cleanup
\* has run, and until start is called again, no step decrements timeLeft as
\* a tick does or invokes the update or complete callback from a tick
C19_NoTickAfterCancel ==
    [][cancelled => ~TickFired]_vars

\* the timer was paused after it had counted down, and is still paused
C19_Witness ==
    /\ cancelled
    /\ last.op = "pause"
    /\ last.ret
    /\ timeLeft < TIMER_DURATION
    /\ timeLeft > 0

(***************************************************************************)
(* The order of the archive.                                               *)
(***************************************************************************)
\* the timestamp a is b or later than b
NotBefore(a, b) == a[1] > b[1] \/ (a[1] = b[1] /\ a[2] >= b[2])

\* every entry was created no earlier than the entries behind it
NewestFirst ==
    \A i \in 1..Len(Entries) : \A j \in i..Len(Entries) :
        NotBefore(Entries[i].date, Entries[j].date)

\* C20: the archive is kept newest first: a save that changes it puts the
\* new entry at index 0 with the earlier entries behind it in their order, a
\* delete leaves the archive as it was or removes exactly the entries with the
\* given id and keeps the order of the rest, and so the archive is ordered
\* by creation, latest first, after any sequence of saves and deletes
C20_ArchiveNewestFirst ==
    /\ []NewestFirst
    /\ [][(last'.op \in SaveOps /\ entriesItem' # entriesItem)
             => /\ getEntries(entriesItem') # <<>>
                /\ Tail(getEntries(entriesItem')) = getEntries(entriesItem)
                /\ Head(getEntries(entriesItem')).date = <<nowDay, nowMs>>]_vars
    /\ [][last'.op = "deleteEntry"
             => LET Other(e) == e.id # last'.id
                IN  getEntries(entriesItem') \in
                        {getEntries(entriesItem),
                         SelectSeq(getEntries(entriesItem), Other)}]_vars

\* of two entries saved at different times one was deleted and the other
\* is still archived
C20_Witness ==
    /\ last.op = "deleteEntry"
    /\ last.found
    /\ last.confirms = 1
    /\ last.ok
    /\ Len(Entries) = 1

(***************************************************************************)
(* The ledger's last write date.                                           *)
(***************************************************************************)
\* C21: lastWriteDate is the date of the most recent qualifying write: it is
\* null exactly while writingDays is empty, and otherwise it is one of
\* writingDays and the date at which the run counted by currentStreak ends
C21_LastWriteDateEndsRun ==
    IF Ledger.writingDays = <<>>
    THEN Ledger.lastWriteDate = NullDate
    ELSE /\ Ledger.lastWriteDate \in WritingDaysSet
         /\ Ledger.currentStreak = RunEndingAt(WritingDaysSet, Ledger.lastWriteDate)

\* C22: the recency filter removes every candidate that is in the recency
\* list and keeps the candidates as they were only when that leaves none:
\* when some assembled candidate is not in the list as it stood before the
\* selection, the prompt returned is not in it either, so a prompt of the
\* list is returned only when every candidate is in the list
C22_FilterRemovesCached ==
    [][Selected(last')
          => \A i \in 1..Len(last'.returned) :
                 LET cache      == CacheAt(CacheBefore, last'.returned, i)
                     candidates == last'.returned[i].candidates
                     prompt     == last'.returned[i].prompt
                 IN  (\E c \in Range(candidates) : ~Includes(cache, c))
                         => ~Includes(cache, prompt)]_vars

\* some of the candidates were in the list, and a prompt that was not in it
\* was returned
C22_Witness ==
    /\ last.op = "newPrompt"
    /\ Selected(last)
    /\ Len(lastUsedPrompts) < MAX_RECENT_PROMPTS
    /\ Len(lastUsedPrompts) >= 3
    /\ \E c \in Range(last.returned[1].candidates) : Includes(Tail(lastUsedPrompts), c)
    /\ ~Includes(Tail(lastUsedPrompts), last.returned[1].prompt)
    /\ last.returned[1].prompt \in Range(last.returned[1].candidates)

(***************************************************************************)
(* The time category.                                                      *)
(***************************************************************************)
\* C23: getTimeCategory gives one category or none, the hour first: morning
\* for the hours 5 to 11, evening for the hours from 18 on and before 5, and
\* for the hours 12 to 17 monday, friday or weekend by the day of the week
\* and none from Tuesday to Thursday; a Monday morning is morning
C23_TimeCategoryByHourFirst ==
    last.op = "getTimeCategory" =>
        /\ last.category \in TimeCategories \cup {"null"}
        /\ last.category = "morning" <=> last.hour \in 5..11
        /\ last.category = "evening" <=> last.hour \in (18..23) \cup (0..4)
        /\ last.category = "monday" <=> (last.hour \in 12..17 /\ last.day = 1)
        /\ last.category = "friday" <=> (last.hour \in 12..17 /\ last.day = 5)
        /\ last.category = "weekend" <=> (last.hour \in 12..17 /\ last.day \in {0, 6})
        /\ last.category = "null" <=> (last.hour \in 12..17 /\ last.day \in 2..4)

\* a Monday morning was classified as morning
C23_Witness ==
    /\ last.op = "getTimeCategory"
    /\ last.hour = 9
    /\ last.day = 1
    /\ last.category = "morning"

(***************************************************************************)
(* The loading of the pool.                                                *)
(***************************************************************************)
\* C24: loading the pool never blocks for ever: promptsLoaded becomes true
\* in every execution, whether the request succeeds, fails or never answers,
\* and until then generateSmartPrompt returns the loading text
C24_LoadingEnds ==
    /\ <>promptsLoaded
    /\ [](~promptsLoaded
             => \A i \in 1..Len(last.returned) :
                    last.returned[i].prompt = LOADING_PROMPTS)

(***************************************************************************)
(* The timer's single interval.                                            *)
(***************************************************************************)
StartOps == {"start", "autoStart"}

\* C25: at most one interval is set at any time, whatever the order of input
\* events, their checks and starts, and start, pause and reset calls: a start
\* while the timer is running is rejected and sets no interval, and a tick
\* takes exactly 1 from timeLeft (a tick that reaches 0 completes)
C25_OneIntervalAtMost ==
    /\ [](Cardinality(liveIntervals) <= 1)
    /\ [][(last'.op \in StartOps /\ isRunning)
             => /\ ~last'.ret
                /\ liveIntervals' = liveIntervals
                /\ issued' = issued]_vars
    /\ [][TickFired
             => /\ isRunning
                /\ (timeLeft - 1) \in last'.exposed
                /\ timeLeft' = IF timeLeft - 1 <= 0 THEN 0 ELSE timeLeft - 1]_vars

\* two checks passed before either started the timer; the first start set
\* the interval and the second was rejected
C25_Witness ==
    /\ last.op = "autoStart"
    /\ ~last.ret
    /\ isRunning
    /\ issued = 1
    /\ Cardinality(liveIntervals) = 1
    /\ timeLeft = TIMER_DURATION

(***************************************************************************)
(* The page's events and the initializations they start (BootSpec).        *)
(***************************************************************************)
\* App.initialize up to "await this.promptsManager.initialize()" (app.js: the
\* input listener of setupAutoStartTimer is registered before the await) and
\* initApp up to "await loadExternalPrompts()" (app-fixed.js): the fetch is sent
StartsInitialization(b) ==
    [b EXCEPT !.awaiting = @ + 1,
              !.fetches = @ + 1,
              !.listeners = IF build = "modular" THEN @ + 1 ELSE @]

\* what the load handler tests before it initializes: app.initialized in
\* app.js, appState.promptsLoaded in app-fixed.js
AlreadyInitialized == IF build = "modular" THEN initialized ELSE promptsLoaded

\* document's DOMContentLoaded (app-fixed.js calls initApp at once when the
\* document is past "loading")
DOMContentLoaded ==
    /\ ~boot.dom
    /\ boot' = [StartsInitialization(boot) EXCEPT !.dom = TRUE]
    /\ last' = [NoLast EXCEPT !.op = "DOMContentLoaded"]
    /\ UNCHANGED <<clock, storeFull, archive, ledger, recency, preferences, build,
                   currentMode, currentPrompt, externalPrompts, promptsLoaded,
                   lastUsedPrompts, initialized, startup, shown, selections,
                   wrapper, countdown, timers>>

\* window's load, which follows DOMContentLoaded
WindowLoad ==
    /\ boot.dom
    /\ ~boot.load
    /\ boot' = [(IF AlreadyInitialized THEN boot ELSE StartsInitialization(boot))
                   EXCEPT !.load = TRUE]
    /\ last' = [NoLast EXCEPT !.op = "load", !.ret = AlreadyInitialized]
    /\ UNCHANGED <<clock, storeFull, archive, ledger, recency, preferences, build,
                   currentMode, currentPrompt, externalPrompts, promptsLoaded,
                   lastUsedPrompts, initialized, startup, shown, selections,
                   wrapper, countdown, timers>>

\* one awaiting initialization gets its pool and runs to its end: the initial
\* prompt is selected and recorded unless the load threw, and initApp of
\* app-fixed.js registers its input listener last
InitializationEnds(result, hour, day, random1, random2) ==
    LET loading == loadExternalPrompts(result, build)
    IN  /\ boot.awaiting > 0
        /\ \/ ModularStartupEnds(startup, result, hour, day, random1, random2)
           \/ FixedStartupEnds(startup, result, hour, day, random1, random2)
        /\ boot' = [boot EXCEPT
                       !.awaiting = @ - 1,
                       !.runs = IF loading.threw THEN @ ELSE @ + 1,
                       !.listeners = IF build = "fixed" THEN @ + 1 ELSE @]

BootInit ==
    /\ PromptPage
    /\ boot = NoBoot

BootNext ==
    \/ DOMContentLoaded
    \/ WindowLoad
    \/ \E result \in FetchResults, hour \in Hours, day \in WeekDays,
          random1 \in Randoms, random2 \in Randoms :
          InitializationEnds(result, hour, day, random1, random2)
    \/ QuotaChange

BootSpec == BootInit /\ [][BootNext]_vars

\* C26: both page events having fired, the load event while the first
\* initialization still awaits the fetch included, the pool was fetched once,
\* the initial prompt was selected and recorded once and the input listener
\* was registered once.
C26_InitializesOnce ==
    /\ boot.fetches <= 1
    /\ boot.runs <= 1
    /\ boot.listeners <= 1

\* a tick that ended the countdown: complete() ran, the completion handler
\* with it
CompletionRan == TickFired /\ isRunning /\ ~isRunning'

\* C28: every value of timeLeft the timer shows on the display or hands to the
\* update callback lies in 0..TIMER_DURATION, and the completion handler runs
\* once per countdown: a tick runs it only when it takes timeLeft from 1 to 0,
\* a start after completion without a reset included.
C28_TimeLeftInRange ==
    /\ [](\A shownLeft \in last.exposed :
              0 <= shownLeft /\ shownLeft <= TIMER_DURATION)
    /\ [][CompletionRan => timeLeft = 1]_vars

\* C29: a delete-one and a clear-all change the entries archive only: the
\* stored streak ledger, the recency cache (stored and in memory) and the
\* three email preferences are after the handler what they were before it.
C29_HistoryTouchesArchiveOnly ==
    [][(last'.op \in {"deleteEntry", "clearAllHistory"})
          => /\ streakItem' = streakItem
             /\ recentPromptsItem' = recentPromptsItem
             /\ lastUsedPrompts' = lastUsedPrompts
             /\ backupDeclinedItem' = backupDeclinedItem
             /\ lastBackupOfferItem' = lastBackupOfferItem
             /\ streakEmailOfferedItem' = streakEmailOfferedItem]_vars

\* the only entry of a day that has its streak credit was deleted, or the
\* archive cleared: the archive is empty and the ledger still counts the day
C29_Witness ==
    /\ \/ last.op = "deleteEntry" /\ last.found /\ last.confirms = 1 /\ last.ok
       \/ last.op = "clearAllHistory" /\ last.confirms = 2
    /\ Len(Entries) = 0
    /\ Includes(Ledger.writingDays, Today)
    /\ Ledger.currentStreak >= 1

\* C30: a qualifying save or copy on a date that writingDays already holds
\* schedules no celebration (and with it no streak-protection offer, which
\* only a celebration schedules), in app.js and in app-fixed.js.
C30_NoCelebrationOnRecordedDate ==
    [][(/\ last'.op \in SaveOps
        /\ last'.valid
        /\ last'.words >= MIN_WORDS_FOR_STREAK
        /\ last'.had)
          => \A t \in last'.scheduled : t.fn \notin {"celebrate", "celebrateFixed"}]_vars

(***************************************************************************)
(* The email offers of app.js over days of saves: a save that downloaded    *)
(* schedules the backup offer, a milestone its celebration, the seventh     *)
(* day's celebration the streak-protection offer (OfferSpec).               *)
(***************************************************************************)
\* a text too short for the streak and one long enough
OfferTexts ==
    {Words(MIN_WORDS_FOR_STREAK - 1),
     <<" ">> \o Words(MIN_WORDS_FOR_STREAK) \o <<" ", " ">>}

\* the days the clock moves on to: the next one, within the cooldown of an
\* offer of the first day, and one that is not
OfferDays == {FirstDay + 1, FirstDay + MaxOfferDays}

\* app.js with PriorDays consecutive days written before the first day
OfferInit ==
    /\ AppInit
    /\ build = "modular"
    /\ streakItem = PriorLedger(PriorDays)

OfferNext ==
    \/ \E day \in OfferDays : NextDay(day)
    \/ QuotaChange
    \/ \E text \in OfferTexts : SaveEntry(text, TRUE)
    \/ \E accepted \in BOOLEAN : OfferEmailBackupFires(accepted)
    \/ \E t \in timers : CelebrateFires(t)
    \/ OfferStreakProtectionFires

OfferSpec == OfferInit /\ [][OfferNext]_vars

====
